---- MODULE Spec2Model ----
(***************************************************************************)
(* A state-machine model of the Akai MPK Mini automation: the             *)
(* configuration store (config.py), the dispatcher and the input loop     *)
(* (controller.py), the knob and pad capabilities (actions/) and the      *)
(* foreground entry point (main.py).                                      *)
(*                                                                         *)
(* Python strings are sequences of one-character strings, so that         *)
(* str(), lower(), replace() and the "in" substring test are computed     *)
(* as the code computes them.  A float r/127.0 is the exact pair <<r,127>>.*)
(***************************************************************************)
EXTENDS Integers, Sequences, FiniteSets, TLC

---------------------------------------------------------------------------
(* Bounds of the model *)

\* free-choice MIDI events the device may deliver in one run
MaxEvents == 2
\* calls of cleanup() after start_monitoring has returned
MaxCleanups == 2
\* calls of update_pad_mapping and update_knob_mapping in one run
MaxUpdates == 2

(* Program constants *)

max_retries == 3
READ_BATCH == 10
NOTE_ON == 144
CONTROL_CHANGE == 176
MIDI_RANGE == 127

---------------------------------------------------------------------------
(* Python strings *)

UpperCase ==
  <<"A","B","C","D","E","F","G","H","I","J","K","L","M",
    "N","O","P","Q","R","S","T","U","V","W","X","Y","Z">>

LowerCase ==
  <<"a","b","c","d","e","f","g","h","i","j","k","l","m",
    "n","o","p","q","r","s","t","u","v","w","x","y","z">>

DecimalDigits == <<"0","1","2","3","4","5","6","7","8","9">>

\* one character of str.lower()
lower_char(c) ==
  IF \E i \in 1..Len(UpperCase) : UpperCase[i] = c
  THEN LowerCase[CHOOSE i \in 1..Len(UpperCase) : UpperCase[i] = c]
  ELSE c

\* s.lower()
str_lower(s) == [i \in 1..Len(s) |-> lower_char(s[i])]

\* s.replace(a, b) for one-character a and b
str_replace(s, a, b) == [i \in 1..Len(s) |-> IF s[i] = a THEN b ELSE s[i]]

\* sub in s
str_contains(sub, s) ==
  \E k \in 0..(Len(s) - Len(sub)) : \A i \in 1..Len(sub) : s[k + i] = sub[i]

\* str(n) for a non-negative integer n
RECURSIVE py_str(_)
py_str(n) ==
  IF n < 10 THEN <<DecimalDigits[n + 1]>>
  ELSE Append(py_str(n \div 10), DecimalDigits[(n % 10) + 1])

---------------------------------------------------------------------------
(* Python floats: IEEE 754 binary64 with round-to-nearest-even.            *)
(*                                                                         *)
(* A float is zero or [neg, m, e]: the sign, the MANT_BITS significand     *)
(* bits (most significant first, m[1] = 1) and the exponent of m[1], so    *)
(* its magnitude is 1.m[2]m[3].. * 2^e.  Only the operations the knob      *)
(* capabilities use are defined, on the magnitudes they can meet (no       *)
(* subnormal, infinite or NaN operand arises from a raw value 0..127).     *)
(* Digit sequences are written <<>> \o [i \in 1..n |-> ..], which is the    *)
(* same sequence built once.                                               *)

\* significand bits of a Python float
MANT_BITS == 53

FZero == [neg |-> FALSE, m |-> <<>>, e |-> 0]

\* the w-bit binary numeral of n
int_bits(n, w) == <<>> \o [i \in 1..w |-> (n \div (2 ^ (w - i))) % 2]

\* the number a bit sequence of at most 30 digits denotes
RECURSIVE bits_value(_)
bits_value(b) ==
  IF b = <<>> THEN 0
  ELSE IF Len(b) = 1 THEN b[1]
  ELSE LET h == Len(b) \div 2
       IN  bits_value(SubSeq(b, 1, h)) * (2 ^ (Len(b) - h))
             + bits_value(SubSeq(b, h + 1, Len(b)))

leading_zeros(b) ==
  IF \A i \in 1..Len(b) : b[i] = 0 THEN Len(b)
  ELSE (CHOOSE i \in 1..Len(b) : b[i] = 1 /\ \A j \in 1..(i - 1) : b[j] = 0) - 1

\* b + 1 on a bit sequence that is not all ones
bits_inc(b) ==
  LET z == CHOOSE i \in 1..Len(b) : b[i] = 0 /\ \A j \in (i + 1)..Len(b) : b[j] = 1
  IN  <<>> \o [i \in 1..Len(b) |-> IF i < z THEN b[i] ELSE IF i = z THEN 1 ELSE 0]

\* a is below b, for bit sequences of one length
bits_less(a, b) ==
  \E i \in 1..Len(a) : a[i] < b[i] /\ \A j \in 1..(i - 1) : a[j] = b[j]

\* a + b for bit sequences of one length whose sum fits that length: the
\* carry into digit i comes from the nearest digit to its right where both
\* are 1, through digits where exactly one is 1
bits_plus(a, b) ==
  <<>> \o [i \in 1..Len(a) |->
     LET carry == \E j \in (i + 1)..Len(a) :
                    /\ a[j] = 1 /\ b[j] = 1
                    /\ \A l \in (i + 1)..(j - 1) : a[l] + b[l] = 1
     IN  (a[i] + b[i] + (IF carry THEN 1 ELSE 0)) % 2]

\* a - b for bit sequences of one length with a >= b: digit i borrows when
\* the digits of a to its right denote less than those of b
bits_minus(a, b) ==
  <<>> \o [i \in 1..Len(a) |->
     LET borrow == bits_less(SubSeq(a, i + 1, Len(a)), SubSeq(b, i + 1, Len(b)))
     IN  (a[i] - b[i] - (IF borrow THEN 1 ELSE 0) + 2) % 2]

\* b * 2^j as w digits
bits_shifted(b, j, w) ==
  <<>> \o [i \in 1..w |-> IF i + j - (w - Len(b)) \in 1..Len(b)
                   THEN b[i + j - (w - Len(b))] ELSE 0]

\* the sum of b * 2^i over the binary digits i >= j of k that are 1, as w digits
RECURSIVE bits_times_from(_, _, _, _)
bits_times_from(b, k, j, w) ==
  IF 2 ^ j > k THEN <<>> \o [i \in 1..w |-> 0]
  ELSE IF (k \div (2 ^ j)) % 2 = 1
       THEN bits_plus(bits_shifted(b, j, w), bits_times_from(b, k, j + 1, w))
       ELSE bits_times_from(b, k, j + 1, w)

\* b * k for a k below 256, as Len(b) + 8 digits
bits_times(b, k) == bits_times_from(b, k, 0, Len(b) + 8)

\* the float nearest to the number whose binary digits are `bits`, the first
\* of weight 2^e1; `sticky` says that non-zero digits follow the ones given.
\* Ties go to the even significand.
round_bits(neg, bits, e1, sticky) ==
  LET z == leading_zeros(bits)
      b == SubSeq(bits, z + 1, Len(bits))
      keep == <<>> \o [i \in 1..MANT_BITS |-> IF i <= Len(b) THEN b[i] ELSE 0]
      guard == IF Len(b) > MANT_BITS THEN b[MANT_BITS + 1] ELSE 0
      rest == sticky \/ \E i \in (MANT_BITS + 2)..Len(b) : b[i] = 1
      up == guard = 1 /\ (rest \/ keep[MANT_BITS] = 1)
      ones == \A i \in 1..MANT_BITS : keep[i] = 1
  IN  IF z = Len(bits) THEN FZero
      ELSE IF ~up THEN [neg |-> neg, m |-> keep, e |-> e1 - z]
      ELSE IF ones THEN [neg |-> neg, m |-> <<>> \o [i \in 1..MANT_BITS |-> IF i = 1 THEN 1 ELSE 0],
                         e |-> e1 - z + 1]
      ELSE [neg |-> neg, m |-> bits_inc(keep), e |-> e1 - z]

\* 2^i mod d for i in 0..89 and d below 256
pow2_mod(i, d) ==
  LET low == (2 ^ (i % 30)) % d
      p == (2 ^ 30) % d
  IN  CASE i < 30 -> low
        [] i < 60 -> (low * p) % d
        [] OTHER -> (low * ((p * p) % d)) % d

\* what is left of n after i binary digits of the fraction of n / d
div_rem(n, d, i) == ((n % d) * pow2_mod(i, d)) % d

\* n / d as a float, for ints 0 <= n < 256 and 0 < d < 256: the 8 digits of
\* the integer part and 64 digits of the fraction, rounded
fdiv(n, d) ==
  round_bits(FALSE,
             int_bits(n \div d, 8) \o [i \in 1..64 |-> (2 * div_rem(n, d, i - 1)) \div d],
             7, div_rem(n, d, 64) # 0)

\* x * k for a float x and a number k in 1..127 that a float holds exactly
fmul(x, k) ==
  IF x = FZero THEN FZero
  ELSE round_bits(x.neg, bits_times(x.m, k), x.e + 8, FALSE)

\* the digits of weights 2^0 .. 2^-63 of a float in [0, 2) with e >= -11
fixed_bits(x) ==
  <<>> \o [i \in 1..64 |-> IF x # FZero /\ i - 1 + x.e \in 0..(MANT_BITS - 1)
                    THEN x.m[i + x.e] ELSE 0]

\* x - y for floats in [0, 2)
fsub(x, y) ==
  LET a == fixed_bits(x)
      b == fixed_bits(y)
  IN  IF bits_less(a, b) THEN round_bits(TRUE, bits_minus(b, a), 0, FALSE)
      ELSE round_bits(FALSE, bits_minus(a, b), 0, FALSE)

fabs(x) == IF x = FZero THEN FZero ELSE [x EXCEPT !.neg = FALSE]
fneg(x) == IF x = FZero THEN FZero ELSE [x EXCEPT !.neg = ~x.neg]

\* abs(x) < abs(y)
mag_less(x, y) ==
  CASE y = FZero -> FALSE
    [] x = FZero -> TRUE
    [] x.e # y.e -> x.e < y.e
    [] OTHER -> bits_less(x.m, y.m)

\* int(x), for abs(x) < 2^30: truncation towards zero
ftrunc(x) ==
  IF x = FZero \/ x.e < 0 THEN 0
  ELSE LET n == bits_value(SubSeq(x.m, 1, x.e + 1))
       IN  IF x.neg THEN -n ELSE n

---------------------------------------------------------------------------
(* Action names of the configuration *)

PreviousTrack == <<"P","r","e","v","i","o","u","s"," ","T","r","a","c","k">>
PlayPauseSpotify == <<"P","l","a","y","/","P","a","u","s","e"," ","S","p","o","t","i","f","y">>
NextTrack == <<"N","e","x","t"," ","T","r","a","c","k">>
LaunchFocusSlack == <<"L","a","u","n","c","h","/","F","o","c","u","s"," ","S","l","a","c","k">>
LaunchFocusWindsurf == <<"L","a","u","n","c","h","/","F","o","c","u","s"," ","W","i","n","d","s","u","r","f">>
VoiceRecognition == <<"V","o","i","c","e"," ","R","e","c","o","g","n","i","t","i","o","n">>
ToggleAudioOutput == <<"T","o","g","g","l","e"," ","A","u","d","i","o"," ","O","u","t","p","u","t">>
MoveToNextDisplay == <<"M","o","v","e"," ","t","o"," ","N","e","x","t"," ","D","i","s","p","l","a","y">>
MinimizeWindow == <<"M","i","n","i","m","i","z","e"," ","W","i","n","d","o","w">>
MaximizeWindow == <<"M","a","x","i","m","i","z","e"," ","W","i","n","d","o","w">>
SwitchWindow == <<"S","w","i","t","c","h"," ","W","i","n","d","o","w">>
OpenFileExplorer == <<"O","p","e","n"," ","F","i","l","e"," ","E","x","p","l","o","r","e","r">>
ShowDesktop == <<"S","h","o","w"," ","D","e","s","k","t","o","p">>
SystemVolume == <<"S","y","s","t","e","m"," ","V","o","l","u","m","e">>
SpotifyVolume == <<"S","p","o","t","i","f","y"," ","V","o","l","u","m","e">>
FirefoxVolume == <<"F","i","r","e","f","o","x"," ","V","o","l","u","m","e">>
ScreenBrightness == <<"S","c","r","e","e","n"," ","B","r","i","g","h","t","n","e","s","s">>
RelativeZoom == <<"R","e","l","a","t","i","v","e"," ","Z","o","o","m">>
HorizontalScroll == <<"H","o","r","i","z","o","n","t","a","l"," ","S","c","r","o","l","l">>
VerticalScroll == <<"V","e","r","t","i","c","a","l"," ","S","c","r","o","l","l">>

\* the methods of PadActions, by attribute name
PadMethods ==
  <<"p","r","e","v","i","o","u","s","_","t","r","a","c","k">> :> "previous_track" @@
  <<"p","l","a","y","_","p","a","u","s","e","_","s","p","o","t","i","f","y">> :> "play_pause_spotify" @@
  <<"n","e","x","t","_","t","r","a","c","k">> :> "next_track" @@
  <<"l","a","u","n","c","h","_","f","o","c","u","s","_","s","l","a","c","k">> :> "launch_focus_slack" @@
  <<"l","a","u","n","c","h","_","f","o","c","u","s","_","w","i","n","d","s","u","r","f">> :> "launch_focus_windsurf" @@
  <<"v","o","i","c","e","_","r","e","c","o","g","n","i","t","i","o","n">> :> "voice_recognition" @@
  <<"t","o","g","g","l","e","_","a","u","d","i","o","_","o","u","t","p","u","t">> :> "toggle_audio_output" @@
  <<"m","o","v","e","_","t","o","_","n","e","x","t","_","d","i","s","p","l","a","y">> :> "move_to_next_display" @@
  <<"m","i","n","i","m","i","z","e","_","w","i","n","d","o","w">> :> "minimize_window" @@
  <<"m","a","x","i","m","i","z","e","_","w","i","n","d","o","w">> :> "maximize_window" @@
  <<"s","w","i","t","c","h","_","w","i","n","d","o","w">> :> "switch_window" @@
  <<"o","p","e","n","_","f","i","l","e","_","e","x","p","l","o","r","e","r">> :> "open_file_explorer" @@
  <<"s","h","o","w","_","d","e","s","k","t","o","p">> :> "show_desktop"

\* the attributes PadActions.__init__ sets, which are not callable
PadFields ==
  { <<"l","o","g","g","e","r">>,
    <<"w","i","n","d","o","w","_","u","t","i","l","s">>,
    <<"p","r","o","c","e","s","s","_","u","t","i","l","s">> }

---------------------------------------------------------------------------
(* JSON values, which are also the Python values of the mappings *)

None == [t |-> "null"]
\* a key the parsed document does not hold
Absent == [t |-> "absent"]
JList == [t |-> "list"]
JStr(s) == [t |-> "str", s |-> s]
\* a Python int, as a caller may pass for a note or a cc
PyInt(n) == [t |-> "int", n |-> n]
JKnob(a, lo, hi) == [t |-> "dict", action |-> a, min |-> lo, max |-> hi]
JObj(m) == [t |-> "obj", m |-> m]
JConfig(pads, knobs) == [t |-> "config", pad_mappings |-> pads, knob_mappings |-> knobs]

\* bool(v) of a Python value: None, "" and empty containers are false
truthy(v) ==
  CASE v.t = "null" -> FALSE
    [] v.t = "str" -> v.s # <<>>
    [] v.t = "list" -> FALSE
    [] v.t = "obj" -> DOMAIN v.m # {}
    [] OTHER -> TRUE

\* str(v) for an int or a str argument
str_arg(v) == IF v.t = "int" THEN py_str(v.n) ELSE v.s


DefaultPadMappings ==
  JObj(py_str(36) :> JStr(PreviousTrack) @@ py_str(37) :> JStr(PlayPauseSpotify) @@
       py_str(38) :> JStr(NextTrack) @@ py_str(39) :> JStr(LaunchFocusSlack) @@
       py_str(40) :> JStr(LaunchFocusWindsurf) @@ py_str(41) :> JStr(VoiceRecognition) @@
       py_str(42) :> JStr(ToggleAudioOutput) @@ py_str(43) :> JStr(MoveToNextDisplay))

DefaultKnobMappings ==
  JObj(py_str(16) :> JKnob(JStr(SystemVolume), 1, 127) @@
       py_str(17) :> JKnob(JStr(SpotifyVolume), 1, 127) @@
       py_str(18) :> JKnob(JStr(FirefoxVolume), 1, 127) @@
       py_str(19) :> JKnob(JStr(ScreenBrightness), 1, 127))

---------------------------------------------------------------------------
(* The persisted configuration file *)

FileMissing == [kind |-> "missing", doc |-> None]
\* a file whose text json.load cannot parse
FileGarbage == [kind |-> "garbage", doc |-> None]
FileJson(doc) == [kind |-> "json", doc |-> doc]

\* json.dump of the two mappings, as json.load reads it back
json_dump(pads, knobs) == FileJson(JConfig(pads, knobs))

\* save_config that lets the failure reach its caller
save_config_propagates(pads, knobs, file, outcome) ==
  CASE outcome = "ok" ->
         [file |-> json_dump(pads, knobs), logs |-> {"config_saved"}, raised |-> FALSE]
    [] outcome = "open_failed" ->
         [file |-> file, logs |-> {}, raised |-> TRUE]
    [] OTHER ->
         [file |-> FileGarbage, logs |-> {}, raised |-> TRUE]

\* Config.save_config; outcome is what the file system does:
\*   "ok", "open_failed" (the file is left as it was) or
\*   "write_failed" (the file was truncated by open(.., 'w') and not completed).
\* The failure is caught and logged.
save_config(pads, knobs, file, outcome) ==
  CASE outcome = "ok" ->
         [file |-> json_dump(pads, knobs), logs |-> {"config_saved"}, raised |-> FALSE]
    [] outcome = "open_failed" ->
         [file |-> file, logs |-> {"config_save_failed"}, raised |-> FALSE]
    [] OTHER ->
         [file |-> FileGarbage, logs |-> {"config_save_failed"}, raised |-> FALSE]

\* Config.create_default_config
create_default_config(file, outcome) ==
  LET s == save_config(DefaultPadMappings, DefaultKnobMappings, file, outcome)
  IN  [pad_mappings |-> DefaultPadMappings, knob_mappings |-> DefaultKnobMappings,
       file |-> s.file, logs |-> s.logs, raised |-> s.raised]

\* config.get(key, {}) on the parsed document
config_get(v) == IF v.t = "absent" THEN JObj(<<>>) ELSE v

\* load_config that keeps the empty mappings when the file cannot be parsed
load_config_no_fallback(file, outcome) ==
  CASE file.kind = "missing" ->
         LET d == create_default_config(file, outcome)
         IN  [d EXCEPT !.logs = d.logs \cup {"config_not_found"}]
    [] file.kind = "json" /\ file.doc.t = "config" ->
         [pad_mappings |-> config_get(file.doc.pad_mappings),
          knob_mappings |-> config_get(file.doc.knob_mappings),
          file |-> file, logs |-> {"config_loaded"}, raised |-> FALSE]
    [] OTHER ->
         [pad_mappings |-> JObj(<<>>), knob_mappings |-> JObj(<<>>),
          file |-> file, logs |-> {"config_load_failed"}, raised |-> FALSE]

\* Config.load_config
load_config(file, outcome) ==
  CASE file.kind = "missing" ->
         LET d == create_default_config(file, outcome)
         IN  [d EXCEPT !.logs = d.logs \cup {"config_not_found"}]
    [] file.kind = "json" /\ file.doc.t = "config" ->
         [pad_mappings |-> config_get(file.doc.pad_mappings),
          knob_mappings |-> config_get(file.doc.knob_mappings),
          file |-> file, logs |-> {"config_loaded"}, raised |-> FALSE]
    [] OTHER ->
         \* json.load raised, or the document has no get(): caught
         LET d == create_default_config(file, outcome)
         IN  [d EXCEPT !.logs = d.logs \cup {"config_load_failed"}]

\* Config.get_pad_action: no guard, so a mapping that is no dict raises
get_pad_action(pads, note) ==
  IF pads.t # "obj" THEN [raised |-> TRUE, value |-> None]
  ELSE [raised |-> FALSE,
        value |-> IF str_arg(note) \in DOMAIN pads.m THEN pads.m[str_arg(note)]
                  ELSE None]

\* get_knob_action without the branch for the legacy string format
get_knob_action_structured_only(knobs, cc) ==
  IF knobs.t # "obj" THEN [raised |-> FALSE, value |-> None, logs |-> {"error"}]
  ELSE LET mapping == IF str_arg(cc) \in DOMAIN knobs.m THEN knobs.m[str_arg(cc)]
                      ELSE None
       IN  [raised |-> FALSE,
            value |-> IF mapping.t = "dict" THEN mapping.action ELSE None,
            logs |-> {}]

\* Config.get_knob_action: everything is inside try/except
get_knob_action(knobs, cc) ==
  IF knobs.t # "obj" THEN [raised |-> FALSE, value |-> None, logs |-> {"error"}]
  ELSE LET mapping == IF str_arg(cc) \in DOMAIN knobs.m THEN knobs.m[str_arg(cc)]
                      ELSE None
       IN  [raised |-> FALSE,
            value |-> CASE mapping.t = "dict" -> mapping.action
                        [] mapping.t = "str" /\ truthy(mapping) -> mapping
                        [] OTHER -> None,
            logs |-> {}]

\* update_pad_mapping that keeps the action a note already has
update_pad_mapping_keep_first(pads, knobs, file, note, action, outcome) ==
  IF pads.t # "obj"
  THEN [pad_mappings |-> pads, file |-> file, logs |-> {}, raised |-> TRUE]
  ELSE LET p == JObj(pads.m @@ (str_arg(note) :> action))
           s == save_config(p, knobs, file, outcome)
       IN  [pad_mappings |-> p, file |-> s.file, logs |-> s.logs, raised |-> s.raised]

\* Config.update_pad_mapping: the item assignment, then save_config.
\* The assignment is outside any try: on a mapping that is no dict it raises.
update_pad_mapping(pads, knobs, file, note, action, outcome) ==
  IF pads.t # "obj"
  THEN [pad_mappings |-> pads, file |-> file, logs |-> {}, raised |-> TRUE]
  ELSE LET p == JObj((str_arg(note) :> action) @@ pads.m)
           s == save_config(p, knobs, file, outcome)
       IN  [pad_mappings |-> p, file |-> s.file, logs |-> s.logs, raised |-> s.raised]

\* Config.update_knob_mapping
update_knob_mapping(pads, knobs, file, cc, action, min_val, max_val, outcome) ==
  IF knobs.t # "obj"
  THEN [knob_mappings |-> knobs, file |-> file, logs |-> {}, raised |-> TRUE]
  ELSE LET k == JObj((str_arg(cc) :> JKnob(action, min_val, max_val)) @@ knobs.m)
           s == save_config(pads, k, file, outcome)
       IN  [knob_mappings |-> k, file |-> s.file, logs |-> s.logs, raised |-> s.raised]

---------------------------------------------------------------------------
(* The dispatcher: AkaiMPKMiniAutomation.handle_pad_action and             *)
(* handle_knob_action, KnobActions.handle_action.                          *)
(*                                                                         *)
(* A dispatch result is [calls, failed, logs, escaped]: the capability     *)
(* operations invoked, whether the invoked operation failed, the levels    *)
(* the dispatcher logged at, and whether an exception left the handler.    *)
(* The argument `fail` is the environment's choice that the operating-     *)
(* system call behind the capability fails.                                *)

PadCall(op) == [op |-> op, app |-> "", val |-> <<>>]
KnobCall(op, app, v) == [op |-> op, app |-> app, val |-> v]

Quiet == [calls |-> <<>>, failed |-> FALSE, logs |-> {}, escaped |-> FALSE]
Logged(level) == [calls |-> <<>>, failed |-> FALSE, logs |-> {level}, escaped |-> FALSE]

\* normalize dividing by the number of values instead of the largest value
normalize_by_128(value) == <<value, MIDI_RANGE + 1>>

\* value / 127.0
normalize(value) == <<value, MIDI_RANGE>>

\* method_name without the replacement of '/'
method_name_keep_slash(action) == str_replace(str_lower(action), " ", "_")

\* action.lower().replace('/', '_').replace(' ', '_')
method_name(action) ==
  str_replace(str_replace(str_lower(action), "/", "_"), " ", "_")

\* handle_pad_action with the hasattr test left out
pad_hasattr_unchecked(name) == TRUE

\* hasattr(self.pad_actions, name), for the attributes the class defines
pad_hasattr(name) == name \in DOMAIN PadMethods \/ name \in PadFields

\* invoke_pad_method with method() outside the try block
invoke_pad_method_uncaught(name, fail) ==
  IF name \in DOMAIN PadMethods
  THEN [calls |-> <<PadCall(PadMethods[name])>>, failed |-> fail,
        logs |-> {}, escaped |-> fail]
  ELSE [Quiet EXCEPT !.escaped = TRUE]

\* the try block of handle_pad_action: a failure of method() is caught and logged
invoke_pad_method(name, fail) ==
  IF name \in DOMAIN PadMethods
  THEN [calls |-> <<PadCall(PadMethods[name])>>, failed |-> fail,
        logs |-> IF fail THEN {"error"} ELSE {}, escaped |-> FALSE]
  ELSE \* the attribute is not callable: TypeError, caught and logged
       Logged("error")

handle_pad_action(note, pads, fail) ==
  LET got == get_pad_action(pads, JStr(py_str(note)))
  IN  IF got.raised THEN [Quiet EXCEPT !.escaped = TRUE]
      ELSE IF ~truthy(got.value) THEN Quiet
      ELSE IF got.value.t # "str" THEN Logged("error")
      ELSE IF pad_hasattr(method_name(got.value.s))
           THEN invoke_pad_method(method_name(got.value.s), fail)
           ELSE Logged("warning")

\* a knob capability: each operation catches and logs its own failure
invoke_knob(op, app, normalized_value, fail) ==
  [calls |-> <<KnobCall(op, app, normalized_value)>>, failed |-> fail,
   logs |-> IF fail THEN {"error"} ELSE {}, escaped |-> FALSE]

\* KnobActions.handle_action
handle_action(action, normalized_value, fail) ==
  CASE action = JStr(SystemVolume) ->
         invoke_knob("set_system_volume", "", normalized_value, fail)
    [] action = JStr(SpotifyVolume) ->
         invoke_knob("set_application_volume", "spotify.exe", normalized_value, fail)
    [] action = JStr(FirefoxVolume) ->
         invoke_knob("set_application_volume", "firefox.exe", normalized_value, fail)
    [] action = JStr(ScreenBrightness) ->
         invoke_knob("set_screen_brightness", "", normalized_value, fail)
    [] action = JStr(RelativeZoom) ->
         invoke_knob("relative_zoom", "", normalized_value, fail)
    [] action = JStr(HorizontalScroll) ->
         invoke_knob("horizontal_scroll", "", normalized_value, fail)
    [] action = JStr(VerticalScroll) ->
         invoke_knob("vertical_scroll", "", normalized_value, fail)
    [] OTHER -> Logged("warning")

\* handle_knob_action normalizing against the max stored for the cc
handle_knob_action_ranged(cc, value, knobs, fail) ==
  LET got == get_knob_action(knobs, JStr(py_str(cc)))
      mapping == IF knobs.t = "obj" /\ py_str(cc) \in DOMAIN knobs.m
                 THEN knobs.m[py_str(cc)] ELSE None
      hi == IF mapping.t = "dict" THEN mapping.max ELSE MIDI_RANGE
  IN  IF ~truthy(got.value)
      THEN [Quiet EXCEPT !.logs = got.logs]
      ELSE handle_action(got.value, <<value, hi>>, fail)

handle_knob_action(cc, value, knobs, fail) ==
  LET got == get_knob_action(knobs, JStr(py_str(cc)))
  IN  IF ~truthy(got.value)
      THEN [Quiet EXCEPT !.logs = got.logs]
      ELSE handle_action(got.value, normalize(value), fail)

\* classify with the velocity test left out
classify_any_velocity(ev) ==
  IF ev.status = NOTE_ON THEN "pad"
  ELSE IF ev.status = CONTROL_CHANGE THEN "knob"
  ELSE "none"

\* the branch of the polling loop an event takes
classify(ev) ==
  IF ev.status = NOTE_ON /\ ev.data2 > 0 THEN "pad"
  ELSE IF ev.status = CONTROL_CHANGE THEN "knob"
  ELSE "none"

\* what the handler is called with
handler_args(ev) ==
  CASE classify(ev) = "pad" -> <<ev.data1>>
    [] classify(ev) = "knob" -> <<ev.data1, ev.data2>>
    [] OTHER -> <<>>

\* the body of the for loop of start_monitoring for one event
dispatch_event(ev, pads, knobs, fail) ==
  LET h == classify(ev)
      a == handler_args(ev)
      r == CASE h = "pad" -> handle_pad_action(a[1], pads, fail)
             [] h = "knob" -> handle_knob_action(a[1], a[2], knobs, fail)
             [] OTHER -> Quiet
  IN  [ev |-> ev, handler |-> h, hargs |-> a, calls |-> r.calls,
       failed |-> r.failed, logs |-> r.logs, escaped |-> r.escaped]

---------------------------------------------------------------------------
(* The knob capabilities: KnobActions.  Each returns [change, os, logs,    *)
(* raised]: the relative change it computed (None when it computes none),  *)
(* the operating-system calls it made, in order, the levels it logged at,  *)
(* and whether an exception left the operation.                            *)
(* A machine is what the capability finds: whether WMI was initialised     *)
(* (wmi), for each display whether it accepts a brightness (displays),     *)
(* whether the application has an audio session (session), and whether    *)
(* the first operating-system call raises (fail).                          *)

ZOOM_SENSITIVITY == 1
SCROLL_SENSITIVITY == 2
ZOOM_STEPS == 5
SCROLL_UNITS == 50
PERCENT == 100

\* the dead zone threshold 0.1
DEADZONE == fdiv(1, 10)

\* value / 127.0 as the float it is
to_float(normalized_value) == fdiv(normalized_value[1], normalized_value[2])

OsCall(api, arg) == [api |-> api, arg |-> arg]
Repeat(x, n) == [i \in 1..n |-> x]

\* _get_relative_change without the conversion of 0..1 to -1..+1
get_relative_change_unscaled(normalized_value, sensitivity) ==
  fmul(fsub(normalized_value, fdiv(1, 2)), sensitivity)

\* _get_relative_change with the centre at 64/127, the middle raw value
get_relative_change_offcentre(normalized_value, sensitivity) ==
  fmul(fmul(fsub(normalized_value, fdiv(64, MIDI_RANGE)), 2), sensitivity)

\* KnobActions._get_relative_change
get_relative_change(normalized_value, sensitivity) ==
  fmul(fmul(fsub(normalized_value, fdiv(1, 2)), 2), sensitivity)

\* a dead zone of 0.01
in_deadzone_narrow(change) == mag_less(change, fdiv(1, 100))

\* abs(change) < 0.1
in_deadzone(change) == mag_less(change, DEADZONE)

\* change > 0
positive(change) == change # FZero /\ ~change.neg

\* KnobActions.relative_zoom
relative_zoom(normalized_value, machine) ==
  LET change == get_relative_change(normalized_value, ZOOM_SENSITIVITY)
      presses == IF positive(change) THEN ftrunc(fmul(change, ZOOM_STEPS))
                 ELSE ftrunc(fmul(fabs(change), ZOOM_STEPS))
      key == IF positive(change) THEN "+" ELSE "-"
  IN  IF in_deadzone(change) THEN [change |-> change, os |-> <<>>, logs |-> {}, raised |-> FALSE]
      ELSE IF machine.fail /\ presses > 0
           THEN [change |-> change, os |-> <<>>, logs |-> {"info", "error"}, raised |-> FALSE]
           ELSE [change |-> change, os |-> Repeat(OsCall("hotkey", <<"ctrl", key>>), presses),
                 logs |-> {"info"}, raised |-> FALSE]

\* KnobActions.horizontal_scroll and vertical_scroll, which differ in the call made
scroll(api, normalized_value, machine) ==
  LET change == get_relative_change(normalized_value, SCROLL_SENSITIVITY)
      scroll_amount == ftrunc(fmul(change, SCROLL_UNITS))
  IN  IF in_deadzone(change) THEN [change |-> change, os |-> <<>>, logs |-> {}, raised |-> FALSE]
      ELSE IF machine.fail
           THEN [change |-> change, os |-> <<>>, logs |-> {"info", "error"}, raised |-> FALSE]
           ELSE [change |-> change, os |-> <<OsCall(api, scroll_amount)>>, logs |-> {"info"},
                 raised |-> FALSE]

horizontal_scroll(normalized_value, machine) == scroll("hscroll", normalized_value, machine)
vertical_scroll(normalized_value, machine) == scroll("vscroll", normalized_value, machine)

\* the percent computed from the raw scale instead of from 100
brightness_percent_raw(normalized_value) ==
  LET brightness == ftrunc(fmul(normalized_value, MIDI_RANGE))
  IN  IF brightness > 100 THEN 100 ELSE IF brightness < 0 THEN 0 ELSE brightness

\* brightness = max(0, min(100, int(normalized_value * 100)))
brightness_percent(normalized_value) ==
  LET brightness == ftrunc(fmul(normalized_value, PERCENT))
  IN  IF brightness > 100 THEN 100 ELSE IF brightness < 0 THEN 0 ELSE brightness

\* the displays asked when the first refusal ends the loop
displays_asked_until_refusal(displays) ==
  IF \A i \in 1..Len(displays) : displays[i] THEN displays
  ELSE SubSeq(displays, 1, CHOOSE i \in 1..Len(displays) :
                              ~displays[i] /\ \A j \in 1..(i - 1) : displays[j])

\* `for method in brightness_methods` with try/except inside the loop: every
\* display is asked, also after one refused
displays_asked(displays) == displays

\* KnobActions.set_screen_brightness
set_screen_brightness(normalized_value, machine) ==
  LET brightness == brightness_percent(normalized_value)
      displays == machine.displays
      asked == displays_asked(displays)
  IN  IF ~machine.wmi
      THEN [change |-> None, os |-> <<>>, logs |-> {"error"}, raised |-> FALSE]
      ELSE IF machine.fail
      THEN [change |-> None, os |-> <<>>, logs |-> {"info", "error"}, raised |-> FALSE]
      ELSE IF displays = <<>>
      THEN [change |-> None, os |-> <<>>, logs |-> {"info", "warning"}, raised |-> FALSE]
      ELSE [change |-> None,
            os |-> [i \in 1..Len(asked) |-> OsCall("WmiSetBrightness", <<brightness, 0>>)],
            logs |-> {"info"} \cup (IF \A i \in 1..Len(asked) : asked[i] THEN {}
                                    ELSE {"error"}),
            raised |-> FALSE]

\* KnobActions.set_system_volume
set_system_volume(normalized_value, machine) ==
  IF machine.fail THEN [change |-> None, os |-> <<>>, logs |-> {"error"}, raised |-> FALSE]
  ELSE [change |-> None, os |-> <<OsCall("SetMasterVolumeLevelScalar", normalized_value)>>,
        logs |-> {"info"}, raised |-> FALSE]

\* KnobActions.set_application_volume
set_application_volume(app_name, normalized_value, machine) ==
  IF machine.fail THEN [change |-> None, os |-> <<>>, logs |-> {"error"}, raised |-> FALSE]
  ELSE IF machine.session
       THEN [change |-> None, os |-> <<OsCall("SetMasterVolume", normalized_value)>>,
             logs |-> {"info"}, raised |-> FALSE]
       ELSE [change |-> None, os |-> <<>>, logs |-> {"warning"}, raised |-> FALSE]

\* the body of the capability operation a dispatch invoked
capability(call, machine) ==
  CASE call.op = "set_system_volume" -> set_system_volume(to_float(call.val), machine)
    [] call.op = "set_application_volume" ->
         set_application_volume(call.app, to_float(call.val), machine)
    [] call.op = "set_screen_brightness" -> set_screen_brightness(to_float(call.val), machine)
    [] call.op = "relative_zoom" -> relative_zoom(to_float(call.val), machine)
    [] call.op = "horizontal_scroll" -> horizontal_scroll(to_float(call.val), machine)
    [] call.op = "vertical_scroll" -> vertical_scroll(to_float(call.val), machine)
    [] OTHER -> [change |-> None, os |-> <<>>, logs |-> {}, raised |-> FALSE]

\* what one execution of a capability operation did
Effect(op, app, val, sensitivity, machine, done) ==
  [op |-> op, app |-> app, val |-> val, sensitivity |-> sensitivity, machine |-> machine,
   change |-> done.change, os |-> done.os, logs |-> done.logs, raised |-> done.raised]

---------------------------------------------------------------------------
(* Inputs of the model *)

Event(st, d1, d2) == [status |-> st, data1 |-> d1, data2 |-> d2]

\* the events the device may deliver freely: note-on with and without
\* velocity, control-change with and without value, each on the numbers 16
\* and 40, and a note-off
Events ==
  { Event(NOTE_ON, 40, 64), Event(NOTE_ON, 40, 0), Event(NOTE_ON, 16, 64),
    Event(CONTROL_CHANGE, 16, 64), Event(CONTROL_CHANGE, 16, 0),
    Event(CONTROL_CHANGE, 40, 64), Event(128, 40, 64) }

\* the event stream of the scenario of the specification
ScenarioStream ==
  << Event(144, 40, 100), Event(176, 16, 64), Event(176, 17, 0), Event(144, 36, 0) >>

\* a hand-edited configuration: names that differ from the recognised ones
\* in case and separators, and an unknown name
CustomDocA ==
  JConfig(
    JObj(py_str(40) :> JStr(<<"l","a","u","n","c","h"," ","f","o","c","u","s","_","w","i","n","d","s","u","r","f">>) @@
         py_str(16) :> JStr(<<"B","o","g","u","s"," ","A","c","t","i","o","n">>)),
    JObj(py_str(16) :> JStr(<<"s","y","s","t","e","m"," ","v","o","l","u","m","e">>) @@
         py_str(40) :> JKnob(JStr(<<"S","y","s","t","e","m","_","V","o","l","u","m","e">>), 1, 127)))

\* a hand-edited configuration: an empty name, the name of a field of the
\* pad handler, and the legacy string form of a knob mapping
CustomDocB ==
  JConfig(
    JObj(py_str(40) :> JStr(<<>>) @@ py_str(16) :> JStr(<<"l","o","g","g","e","r">>)),
    JObj(py_str(16) :> JStr(FirefoxVolume) @@ py_str(40) :> JKnob(JStr(<<>>), 1, 127)))

\* what the configuration file may hold when the program starts
FilePool ==
  { FileMissing, FileGarbage, FileJson(JList), FileJson(CustomDocA), FileJson(CustomDocB) }

SaveOutcomes == {"ok", "open_failed", "write_failed"}

Device(name, is_input) == [name |-> name, input |-> is_input]

\* what pygame.midi enumerates: the device info (name, input flag) by device id + 1
DeviceLists ==
  { << Device(<<"M","a","p","p","e","r">>, 0), Device(<<"M","P","K"," ","m","i","n","i">>, 1) >>,
    << Device(<<"M","P","K"," ","M","i","n","i"," ","3">>, 0),
       Device(<<"M","P","K"," ","M","i","n","i"," ","3">>, 1),
       Device(<<"m","p","k"," ","m","i","n","i">>, 1) >>,
    << Device(<<"M","a","p","p","e","r">>, 0), Device(<<"M","P","K"," ","m","i","n","i">>, 0) >> }

\* where an attempt of device setup may fail
SetupOutcomes == {"ok", "init_failed", "enumerate_failed", "open_failed"}

---------------------------------------------------------------------------
(* pygame.midi, as controller.py uses it *)

\* release with quit() before close()
release_quit_first(mi, open, init, rlog) ==
  [open |-> IF mi # "None" THEN FALSE ELSE open,
   init |-> FALSE,
   rlog |-> IF mi # "None" THEN rlog \o <<"quit", "close">> ELSE Append(rlog, "quit"),
   raised |-> FALSE]

\* release that leaves the device handle open
release_without_close(mi, open, init, rlog) ==
  [open |-> open, init |-> FALSE, rlog |-> Append(rlog, "quit"), raised |-> FALSE]

\* the statements `if self.midi_input: self.midi_input.close()` and
\* `pygame.midi.quit()`.  Input.close() checks that the module is initialised
\* and raises when it is not; the exception skips quit().  quit() is a no-op
\* on a module that is not initialised.
release(mi, open, init, rlog) ==
  IF mi # "None" /\ ~init
  THEN [open |-> open, init |-> init, rlog |-> Append(rlog, "close"), raised |-> TRUE]
  ELSE [open |-> IF mi # "None" THEN FALSE ELSE open,
        init |-> FALSE,
        rlog |-> IF mi # "None" THEN rlog \o <<"close", "quit">> ELSE Append(rlog, "quit"),
        raised |-> FALSE]

\* the search of initialize_midi without the test of the input flag
matching_any_direction(devs) ==
  { i \in 1..Len(devs) :
      str_contains(<<"m","p","k"," ","m","i","n","i">>, str_lower(devs[i].name)) }

\* the ids (from 1) of the devices the search of initialize_midi accepts
matching(devs) ==
  { i \in 1..Len(devs) :
      /\ str_contains(<<"m","p","k"," ","m","i","n","i">>, str_lower(devs[i].name))
      /\ devs[i].input = 1 }

\* the try block of initialize_midi, once: kind is "failed" when it raised,
\* "found" when it returned with a device and "not_found" when it returned without
setup_attempt(devs, outcome, mi, open, init) ==
  LET rel == release(mi, open, init, <<>>)
      m == matching(devs)
      first == CHOOSE i \in m : \A j \in m : i <= j
      failed(up) == [kind |-> "failed", midi_input |-> mi, deviceId |-> -1,
                     open |-> rel.open, init |-> up, devices |-> <<>>]
  IN  CASE rel.raised -> failed(rel.init)
        [] outcome = "init_failed" -> failed(FALSE)
        [] outcome = "enumerate_failed" -> failed(TRUE)
        [] m = {} -> [kind |-> "not_found", midi_input |-> mi, deviceId |-> -1,
                      open |-> rel.open, init |-> TRUE, devices |-> devs]
        [] outcome = "open_failed" -> failed(TRUE)
        [] OTHER -> [kind |-> "found", midi_input |-> "Input", deviceId |-> first - 1,
                     open |-> TRUE, init |-> TRUE, devices |-> devs]

\* retry_allowed with the comparison off by one
retry_allowed_once_more(count) == count <= max_retries

\* `while retry_count < max_retries` and `if retry_count < max_retries`
retry_allowed(count) == count < max_retries

\* a wait after every failed attempt, the last included
backoff_always(count) == 1

\* the one-second sleeps after the count-th failure: `time.sleep(1)` under
\* `if retry_count < max_retries`
backoff(count) == IF retry_allowed(count) THEN 1 ELSE 0

\* start_monitoring without its guard
has_device_unchecked(mi) == TRUE

\* `if not self.midi_input` of start_monitoring, negated
has_device(mi) == mi # "None"

---------------------------------------------------------------------------
(* The state *)

VARIABLES
  pc,               \* position of the main thread
  file,             \* the configuration file
  pad_mappings,     \* Config.pad_mappings
  knob_mappings,    \* Config.knob_mappings
  updates,          \* history: the calls of update_pad_mapping / update_knob_mapping
  logs,             \* the log records written outside event dispatch
  retry_count,      \* retry_count of initialize_midi
  sleeps,           \* the one-second waits initialize_midi has made
  attemptLog,       \* the result of each attempt of device setup
  devices,          \* the devices the last completed enumeration reported
  midi_input,       \* self.midi_input: "None" or "Input"
  deviceId,         \* the device id self.midi_input was opened with
  inputOpen,        \* whether the stream of self.midi_input is open
  midiInit,         \* whether pygame.midi is initialised
  feed,             \* the scripted events the device has still to deliver
  free,             \* the freely chosen events the device may still deliver
  pending,          \* delivered by the device, not yet read
  batch,            \* read by the loop, not yet dispatched
  trace,            \* one dispatch record per event the loop has handled
  effects,          \* what the capability operations did, where their bodies are run
  interruptPending, \* an interrupt has arrived and is not yet raised
  monitorExit,      \* how start_monitoring ended
  monitorRaised,    \* an exception left start_monitoring
  releaseLog,       \* the close/quit calls made from start_monitoring and cleanup
  cleanups,         \* completed calls of cleanup()
  cleanupRaised,    \* a call of cleanup() raised
  stop_event,       \* MidiControllerService.stop_event is signalled
  main_process,     \* MidiControllerService.main_process: "None" or "Popen"
  child,            \* the process SvcDoRun started: "none", "running", "terminated", "exited"
  svcDoRun,         \* position of SvcDoRun ("none" when the program is no service)
  svcStop           \* position of SvcStop

configVars == <<file, pad_mappings, knob_mappings, updates>>
setupVars == <<retry_count, sleeps, attemptLog, devices, midi_input, deviceId>>
midiVars == <<inputOpen, midiInit>>
streamVars == <<feed, free, pending, batch, trace, effects>>
exitVars == <<interruptPending, monitorExit, monitorRaised>>
cleanupVars == <<releaseLog, cleanups, cleanupRaised>>

serviceVars == <<stop_event, main_process, child, svcDoRun, svcStop>>
vars == <<pc, logs, configVars, setupVars, midiVars, streamVars, exitVars, cleanupVars,
          serviceVars>>

\* the program runs in the foreground: there is no service
NoService ==
  /\ stop_event = FALSE
  /\ main_process = "None"
  /\ child = "none"
  /\ svcDoRun = "none"
  /\ svcStop = "none"

ProgramInit ==
  /\ pc = "load_config"
  /\ file \in FilePool
  /\ pad_mappings = JObj(<<>>)
  /\ knob_mappings = JObj(<<>>)
  /\ updates = <<>>
  /\ logs = {}
  /\ retry_count = 0
  /\ sleeps = 0
  /\ attemptLog = <<>>
  /\ devices = <<>>
  /\ midi_input = "None"
  /\ deviceId = -1
  /\ inputOpen = FALSE
  /\ midiInit = FALSE
  /\ feed \in {<<>>, ScenarioStream}
  /\ free = IF feed = <<>> THEN MaxEvents ELSE 0
  /\ pending = <<>>
  /\ batch = <<>>
  /\ trace = <<>>
  /\ effects = <<>>
  /\ interruptPending = FALSE
  /\ monitorExit = "none"
  /\ monitorRaised = FALSE
  /\ releaseLog = <<>>
  /\ cleanups = 0
  /\ cleanupRaised = FALSE

Init == ProgramInit /\ NoService

---------------------------------------------------------------------------
(* The operations *)

\* Config.__init__: load_config, with what the file system does to a save
LoadConfig ==
  /\ pc = "load_config"
  /\ \E outcome \in SaveOutcomes :
       LET r == load_config(file, outcome)
       IN  /\ pad_mappings' = r.pad_mappings
           /\ knob_mappings' = r.knob_mappings
           /\ file' = r.file
           /\ logs' = logs \cup r.logs
           /\ pc' = IF r.raised THEN "crashed" ELSE "init_midi"
  /\ UNCHANGED <<updates, setupVars, serviceVars, midiVars, streamVars, exitVars, cleanupVars>>

\* one iteration of the retry loop of initialize_midi
InitializeMidi ==
  /\ pc = "init_midi"
  /\ retry_allowed(retry_count)
  /\ \E devs \in DeviceLists, outcome \in SetupOutcomes :
       LET r == setup_attempt(devs, outcome, midi_input, inputOpen, midiInit)
           again == retry_allowed(retry_count + 1)
       IN  /\ attemptLog' = Append(attemptLog, r.kind)
           /\ midi_input' = r.midi_input
           /\ deviceId' = r.deviceId
           /\ inputOpen' = r.open
           /\ midiInit' = r.init
           /\ devices' = r.devices
           /\ IF r.kind = "failed"
              THEN /\ retry_count' = retry_count + 1
                   /\ sleeps' = sleeps + backoff(retry_count + 1)
                   /\ logs' = logs \cup {"midi_init_retry"}
                                   \cup (IF again THEN {} ELSE {"midi_init_gave_up"})
                   /\ pc' = IF again THEN "init_midi" ELSE "constructed"
              ELSE /\ UNCHANGED <<retry_count, sleeps>>
                   /\ logs' = logs \cup (IF r.kind = "found" THEN {"midi_connected"}
                                                            ELSE {"midi_not_found"})
                   /\ pc' = "constructed"
  /\ UNCHANGED <<configVars, serviceVars, streamVars, exitVars, cleanupVars>>

\* start_monitoring up to the loop
StartMonitoring ==
  /\ pc = "constructed"
  /\ IF has_device(midi_input)
     THEN /\ pc' = "polling"
          /\ logs' = logs \cup {"monitoring_started"}
          /\ UNCHANGED monitorExit
     ELSE /\ pc' = "returned"
          /\ logs' = logs \cup {"no_midi_input"}
          /\ monitorExit' = "no_device"
  /\ UNCHANGED <<configVars, setupVars, serviceVars, midiVars, streamVars, interruptPending,
                 monitorRaised, cleanupVars>>

\* the device delivers one more event
NextEvents == IF feed # <<>> THEN {Head(feed)} ELSE IF free > 0 THEN Events ELSE {}

Deliver ==
  /\ pc = "polling"
  /\ ~interruptPending
  /\ \E e \in NextEvents :
       /\ pending' = Append(pending, e)
       /\ feed' = IF feed # <<>> THEN Tail(feed) ELSE feed
       /\ free' = IF feed # <<>> THEN free ELSE free - 1
  /\ UNCHANGED <<pc, logs, configVars, setupVars, serviceVars, midiVars, batch, trace, effects,
                 exitVars, cleanupVars>>

\* read() returning everything that is pending
read_count_unbounded(n) == n

\* the number of events read(READ_BATCH) returns
read_count(n) == IF n < READ_BATCH THEN n ELSE READ_BATCH

\* poll() is true and read(10) returns the oldest pending events
PollRead ==
  /\ pc = "polling"
  /\ ~interruptPending
  /\ batch = <<>>
  /\ pending # <<>>
  /\ batch' = SubSeq(pending, 1, read_count(Len(pending)))
  /\ pending' = SubSeq(pending, read_count(Len(pending)) + 1, Len(pending))
  /\ UNCHANGED <<pc, logs, configVars, setupVars, serviceVars, midiVars, feed, free, trace, effects,
                 exitVars, cleanupVars>>

\* `except Exception` and `finally` of start_monitoring
monitoring_error(tr) ==
  LET rel == release(midi_input, inputOpen, midiInit, releaseLog)
  IN  /\ trace' = tr
      /\ logs' = logs \cup {"monitoring_error"}
      /\ inputOpen' = rel.open
      /\ midiInit' = rel.init
      /\ releaseLog' = rel.rlog
      /\ monitorRaised' = rel.raised
      /\ monitorExit' = "error"
      /\ pc' = "returned"
      \* the stream's buffer goes with the stream, `events` with the frame
      /\ pending' = <<>>
      /\ batch' = <<>>
      /\ UNCHANGED <<configVars, setupVars, serviceVars, feed, free, effects, interruptPending,
                     cleanups, cleanupRaised>>

\* poll() or read() raises
PollFail ==
  /\ pc = "polling"
  /\ ~interruptPending
  /\ batch = <<>>
  /\ monitoring_error(trace)

\* the loop body for the next event of the batch
Dispatch ==
  /\ pc = "polling"
  /\ ~interruptPending
  /\ batch # <<>>
  /\ \E fail \in BOOLEAN :
       LET r == dispatch_event(Head(batch), pad_mappings, knob_mappings, fail)
       IN  IF r.escaped
           THEN monitoring_error(Append(trace, r))
           ELSE /\ trace' = Append(trace, r)
                /\ batch' = Tail(batch)
                /\ UNCHANGED <<pc, logs, configVars, setupVars, serviceVars, midiVars, feed, free,
                               pending, effects, exitVars, cleanupVars>>

\* Ctrl+C while the loop runs: raised in the main thread at its next step
SignalInterrupt ==
  /\ pc = "polling"
  /\ ~interruptPending
  /\ interruptPending' = TRUE
  /\ UNCHANGED <<pc, logs, configVars, setupVars, serviceVars, midiVars, streamVars, monitorExit,
                 monitorRaised, cleanupVars>>

\* `except KeyboardInterrupt` and `finally` of start_monitoring
HandleInterrupt ==
  /\ pc = "polling"
  /\ interruptPending
  /\ LET rel == release(midi_input, inputOpen, midiInit, releaseLog)
     IN  /\ logs' = logs \cup {"monitoring_stopped"}
         /\ inputOpen' = rel.open
         /\ midiInit' = rel.init
         /\ releaseLog' = rel.rlog
         /\ monitorRaised' = rel.raised
         /\ monitorExit' = "interrupt"
         /\ pc' = "returned"
  /\ pending' = <<>>
  /\ batch' = <<>>
  /\ interruptPending' = FALSE
  /\ UNCHANGED <<configVars, setupVars, serviceVars, feed, free, trace, effects, cleanups,
                 cleanupRaised>>

\* cleanup(), as the finally clause of main calls it, and any later call
Cleanup ==
  /\ pc = "returned"
  /\ cleanups < MaxCleanups
  /\ LET rel == release(midi_input, inputOpen, midiInit, releaseLog)
     IN  /\ inputOpen' = rel.open
         /\ midiInit' = rel.init
         /\ releaseLog' = rel.rlog
         /\ cleanupRaised' = (cleanupRaised \/ rel.raised)
         /\ logs' = IF rel.raised THEN logs ELSE logs \cup {"cleaned_up"}
         /\ cleanups' = cleanups + 1
  /\ UNCHANGED <<pc, configVars, setupVars, serviceVars, streamVars, exitVars>>

Next ==
  \/ LoadConfig
  \/ InitializeMidi
  \/ StartMonitoring
  \/ Deliver
  \/ PollRead
  \/ PollFail
  \/ Dispatch
  \/ SignalInterrupt
  \/ HandleInterrupt
  \/ Cleanup

Spec == Init /\ [][Next]_vars

\* the interpreter raises a pending interrupt at the next step of the main thread
FairSpec == Spec /\ WF_vars(HandleInterrupt)

\* the constructor runs on: an attempt that is due is made
InitFairSpec == Spec /\ WF_vars(InitializeMidi)

---------------------------------------------------------------------------
(* The configuration store used through its update operations while the    *)
(* loop is polling                                                         *)

\* the files a store is constructed from
StoreFiles == { FileMissing, FileJson(CustomDocB) }

\* the arguments of the update operations
UpdateNotes == { PyInt(40), JStr(py_str(40)) }
UpdateActions == { JStr(NextTrack), JStr(ShowDesktop) }
UpdateCcs == { PyInt(16) }
UpdateKnobActions == { JStr(SpotifyVolume) }
\* min_val and max_val: the defaults of update_knob_mapping
UpdateRanges == { <<1, 127>> }

\* the events the device delivers in a run of the store
StoreStreams == { << Event(NOTE_ON, 40, 100) >>, << Event(CONTROL_CHANGE, 16, 64) >> }

\* the controller after a construction that found the device, polling
Monitoring ==
  LET devs == CHOOSE d \in DeviceLists : Len(d) = 2 /\ matching(d) # {}
      a == setup_attempt(devs, "ok", "None", FALSE, FALSE)
  IN  /\ pc = "polling"
      /\ logs = {}
      /\ retry_count = 0
      /\ sleeps = 0
      /\ attemptLog = <<a.kind>>
      /\ devices = a.devices
      /\ midi_input = a.midi_input
      /\ deviceId = a.deviceId
      /\ inputOpen = a.open
      /\ midiInit = a.init
      /\ batch = <<>>
      /\ trace = <<>>
      /\ effects = <<>>
      /\ interruptPending = FALSE
      /\ monitorExit = "none"
      /\ monitorRaised = FALSE
      /\ releaseLog = <<>>
      /\ cleanups = 0
      /\ cleanupRaised = FALSE
      /\ NoService

StoreInit ==
  /\ Monitoring
  /\ \E f \in StoreFiles :
       LET r == load_config(f, "ok")
       IN  /\ file = r.file
           /\ pad_mappings = r.pad_mappings
           /\ knob_mappings = r.knob_mappings
  /\ updates = <<>>
  /\ feed \in StoreStreams
  /\ free = 0
  /\ pending = <<>>

\* the history record of one update call
UpdateRecord(op, key, action, r) ==
  [op |-> op, key |-> key, action |-> action, saved |-> "config_saved" \in r.logs,
   raised |-> r.raised, at |-> Len(trace)]

\* a call of Config.update_pad_mapping
UpdatePadMapping ==
  /\ pc = "polling"
  /\ Len(updates) < MaxUpdates
  /\ \E note \in UpdateNotes, action \in UpdateActions, outcome \in SaveOutcomes :
       LET r == update_pad_mapping(pad_mappings, knob_mappings, file, note, action,
                                   outcome)
       IN  /\ pad_mappings' = r.pad_mappings
           /\ file' = r.file
           /\ logs' = logs \cup r.logs
           /\ updates' = Append(updates, UpdateRecord("update_pad_mapping", note, action, r))
           /\ pc' = IF r.raised THEN "crashed" ELSE pc
  /\ UNCHANGED <<knob_mappings, setupVars, serviceVars, midiVars, streamVars, exitVars, cleanupVars>>

\* a call of Config.update_knob_mapping
UpdateKnobMapping ==
  /\ pc = "polling"
  /\ Len(updates) < MaxUpdates
  /\ \E cc \in UpdateCcs, action \in UpdateKnobActions, range \in UpdateRanges,
        outcome \in SaveOutcomes :
       LET r == update_knob_mapping(pad_mappings, knob_mappings, file, cc, action,
                                    range[1], range[2], outcome)
       IN  /\ knob_mappings' = r.knob_mappings
           /\ file' = r.file
           /\ logs' = logs \cup r.logs
           /\ updates' = Append(updates, UpdateRecord("update_knob_mapping", cc, action, r))
           /\ pc' = IF r.raised THEN "crashed" ELSE pc
  /\ UNCHANGED <<pad_mappings, setupVars, serviceVars, midiVars, streamVars, exitVars, cleanupVars>>

StoreNext ==
  \/ UpdatePadMapping
  \/ UpdateKnobMapping
  \/ Deliver
  \/ PollRead
  \/ Dispatch

StoreSpec == StoreInit /\ [][StoreNext]_vars

---------------------------------------------------------------------------
(* One event dispatched with the body of the capability run, for every     *)
(* raw value, and _get_relative_change called directly                     *)

\* the non-default actions, with legacy and structured knob mappings and
\* other min and max than the defaults
OtherDoc ==
  JConfig(
    JObj(py_str(36) :> JStr(MinimizeWindow) @@ py_str(37) :> JStr(MaximizeWindow) @@
         py_str(38) :> JStr(SwitchWindow) @@ py_str(39) :> JStr(OpenFileExplorer) @@
         py_str(40) :> JStr(ShowDesktop)),
    JObj(py_str(16) :> JKnob(JStr(RelativeZoom), 1, 127) @@
         py_str(17) :> JKnob(JStr(HorizontalScroll), 0, 64) @@
         py_str(18) :> JStr(VerticalScroll) @@
         py_str(19) :> JStr(ScreenBrightness)))

\* the default pads; knobs in the legacy form, one of them with an unknown name
LegacyDoc ==
  JConfig(
    DefaultPadMappings,
    JObj(py_str(16) :> JStr(SystemVolume) @@ py_str(17) :> JStr(SpotifyVolume) @@
         py_str(18) :> JKnob(JStr(FirefoxVolume), 20, 10) @@
         py_str(19) :> JStr(<<"B","o","g","u","s">>)))

CapabilityDocs == { JConfig(DefaultPadMappings, DefaultKnobMappings), OtherDoc, LegacyDoc }

\* a pad press on every note 35..44 and a knob turn on every cc 15..19 with
\* every raw value
CapabilityEvents ==
  { Event(NOTE_ON, n, 100) : n \in 35..44 } \cup
  { Event(CONTROL_CHANGE, cc, r) : cc \in 15..19, r \in 0..MIDI_RANGE }

Machines ==
  { [wmi |-> TRUE, displays |-> <<TRUE>>, session |-> TRUE, fail |-> FALSE],
    [wmi |-> TRUE, displays |-> <<FALSE, TRUE>>, session |-> FALSE, fail |-> FALSE],
    [wmi |-> TRUE, displays |-> <<FALSE, FALSE>>, session |-> TRUE, fail |-> FALSE],
    [wmi |-> TRUE, displays |-> <<>>, session |-> TRUE, fail |-> FALSE],
    [wmi |-> FALSE, displays |-> <<TRUE>>, session |-> TRUE, fail |-> FALSE],
    [wmi |-> TRUE, displays |-> <<TRUE>>, session |-> TRUE, fail |-> TRUE] }

\* the normalized values of a direct call: every raw value over 127, and the
\* centre and the quarters
NormalizedInputs ==
  { <<r, MIDI_RANGE>> : r \in 0..MIDI_RANGE } \cup { <<1, 2>>, <<1, 4>>, <<3, 4>> }

Sensitivities == { ZOOM_SENSITIVITY, SCROLL_SENSITIVITY }

CapabilityInit ==
  /\ Monitoring
  /\ \E doc \in CapabilityDocs :
       LET r == load_config(FileJson(doc), "ok")
       IN  /\ file = r.file
           /\ pad_mappings = r.pad_mappings
           /\ knob_mappings = r.knob_mappings
  /\ updates = <<>>
  /\ feed = <<>>
  /\ free = 0
  /\ pending \in { <<>> } \cup { <<e>> : e \in CapabilityEvents }

\* the loop body for the next event of the batch, the capability's body included
DispatchCapability ==
  /\ pc = "polling"
  /\ ~interruptPending
  /\ batch # <<>>
  /\ \E machine \in Machines :
       LET r == dispatch_event(Head(batch), pad_mappings, knob_mappings, machine.fail)
       IN  IF r.escaped
           THEN monitoring_error(Append(trace, r))
           ELSE /\ trace' = Append(trace, r)
                /\ batch' = Tail(batch)
                /\ effects' = effects \o
                     [i \in 1..Len(r.calls) |->
                        Effect(r.calls[i].op, r.calls[i].app, r.calls[i].val, 0, machine,
                               capability(r.calls[i], machine))]
                /\ UNCHANGED <<pc, logs, configVars, setupVars, serviceVars, midiVars, feed, free,
                               pending, exitVars, cleanupVars>>

\* a direct call of KnobActions._get_relative_change
CallRelativeChange ==
  /\ pc = "polling"
  /\ pending = <<>> /\ batch = <<>> /\ trace = <<>> /\ effects = <<>>
  /\ \E nv \in NormalizedInputs, sensitivity \in Sensitivities :
       effects' = << Effect("_get_relative_change", "", nv, sensitivity,
                            CHOOSE m \in Machines : ~m.fail /\ m.wmi /\ m.session,
                            [change |-> get_relative_change(to_float(nv), sensitivity),
                             os |-> <<>>, logs |-> {}, raised |-> FALSE]) >>
  /\ UNCHANGED <<pc, logs, configVars, setupVars, serviceVars, midiVars, feed, free, pending, batch,
                 trace, exitVars, cleanupVars>>

CapabilityNext ==
  \/ PollRead
  \/ DispatchCapability
  \/ CallRelativeChange

CapabilitySpec == CapabilityInit /\ [][CapabilityNext]_vars

---------------------------------------------------------------------------
(* The polling loop under a burst: more events than one read returns are   *)
(* delivered while the loop is busy                                        *)

\* the i-th event of a burst: knob turns whose value tells them apart, on a
\* mapped cc for the first and the eleventh and on an unmapped cc otherwise,
\* and a pad press in third place
BurstEvent(i) ==
  IF i = 3 THEN Event(NOTE_ON, 40, i)
  ELSE IF i \in {1, 11} THEN Event(CONTROL_CHANGE, 16, i)
  ELSE Event(CONTROL_CHANGE, 40, i)

\* bursts of 3, 10, 11 and 12 events
Bursts == { <<>> \o [i \in 1..n |-> BurstEvent(i)] : n \in {3, READ_BATCH, READ_BATCH + 1, READ_BATCH + 2} }

BurstInit ==
  /\ Monitoring
  /\ LET r == load_config(FileMissing, "ok")
     IN  /\ file = r.file
         /\ pad_mappings = r.pad_mappings
         /\ knob_mappings = r.knob_mappings
  /\ updates = <<>>
  /\ feed \in Bursts
  /\ free = 0
  /\ pending = <<>>

BurstNext ==
  \/ Deliver
  \/ PollRead
  \/ Dispatch

BurstSpec == BurstInit /\ [][BurstNext]_vars

---------------------------------------------------------------------------
(* The polling loop under hand-edited configuration files: JSON objects    *)
(* that load_config accepts although their mappings are no objects or      *)
(* their actions no strings                                                *)

\* mappings whose actions are a number, a list and null, and a structured
\* knob mapping whose action is a number
HandEditedDocs ==
  { JConfig(None, None), JConfig(JList, JList), JConfig(PyInt(5), JStr(SystemVolume)),
    JConfig(Absent, Absent),
    JConfig(JObj(py_str(36) :> PyInt(5) @@ py_str(40) :> JList @@ py_str(16) :> None),
            JObj(py_str(16) :> JKnob(PyInt(5), 1, 127) @@ py_str(17) :> PyInt(5) @@
                 py_str(40) :> JList)),
    JConfig(DefaultPadMappings, None), JConfig(JList, DefaultKnobMappings) }

\* a pad press or a knob turn, alone or followed by a second one
HandEditedEvents ==
  { Event(NOTE_ON, 36, 100), Event(NOTE_ON, 40, 100), Event(CONTROL_CHANGE, 16, 64),
    Event(CONTROL_CHANGE, 17, 64), Event(CONTROL_CHANGE, 40, 64) }

HandEditedInit ==
  /\ Monitoring
  \* the files: the hand-edited documents and one that load_config rejects
  /\ \E f \in { FileJson(doc) : doc \in HandEditedDocs } \cup { FileJson(JList) } :
       LET r == load_config(f, "ok")
       IN  /\ file = r.file
           /\ pad_mappings = r.pad_mappings
           /\ knob_mappings = r.knob_mappings
  /\ updates = <<>>
  /\ feed \in { <<e>> : e \in HandEditedEvents } \cup
              { <<e, f>> : e \in HandEditedEvents, f \in HandEditedEvents }
  /\ free = 0
  /\ pending = <<>>

HandEditedNext ==
  \/ Deliver
  \/ PollRead
  \/ Dispatch

HandEditedSpec == HandEditedInit /\ [][HandEditedNext]_vars

---------------------------------------------------------------------------
(* The background service: MidiControllerService.  SvcDoRun runs on the    *)
(* service's main thread and SvcStop on the control handler's thread, so   *)
(* their statements interleave.  The child process is the foreground       *)
(* program; it runs its construction and enters the loop while it lives.   *)

ServiceInit ==
  /\ ProgramInit
  /\ stop_event = FALSE
  /\ main_process = "None"
  /\ child = "none"
  /\ svcDoRun = "start"
  /\ svcStop = "none"

\* SvcDoRun: the call subprocess.Popen(...), which starts the child; when it
\* raises, `except Exception` logs and SvcDoRun returns
Popen ==
  /\ svcDoRun = "start"
  /\ \E outcome \in {"ok", "failed"} :
       IF outcome = "ok"
       THEN child' = "running" /\ svcDoRun' = "assign"
       ELSE child' = child /\ svcDoRun' = "returned"
  /\ UNCHANGED <<pc, logs, configVars, setupVars, midiVars, streamVars, exitVars,
                 cleanupVars, stop_event, main_process, svcStop>>

\* SvcDoRun: the assignment self.main_process = <the Popen object>
AssignMainProcess ==
  /\ svcDoRun = "assign"
  /\ main_process' = "Popen"
  /\ svcDoRun' = "wait"
  /\ UNCHANGED <<pc, logs, configVars, setupVars, midiVars, streamVars, exitVars,
                 cleanupVars, stop_event, child, svcStop>>

\* SvcDoRun: WaitForSingleObject(self.stop_event, INFINITE) returns once the
\* event is signalled (an auto-reset event), and SvcDoRun returns
WaitForStop ==
  /\ svcDoRun = "wait"
  /\ stop_event
  /\ stop_event' = FALSE
  /\ svcDoRun' = "returned"
  /\ UNCHANGED <<pc, logs, configVars, setupVars, midiVars, streamVars, exitVars,
                 cleanupVars, main_process, child, svcStop>>

\* SvcStop is called: ReportServiceStatus(SERVICE_STOP_PENDING)
ReportStopPending ==
  /\ svcStop = "none"
  /\ svcStop' = "set_event"
  /\ UNCHANGED <<pc, logs, configVars, setupVars, midiVars, streamVars, exitVars,
                 cleanupVars, stop_event, main_process, child, svcDoRun>>

\* SvcStop: win32event.SetEvent(self.stop_event)
SetStopEvent ==
  /\ svcStop = "set_event"
  /\ stop_event' = TRUE
  /\ svcStop' = "terminate"
  /\ UNCHANGED <<pc, logs, configVars, setupVars, midiVars, streamVars, exitVars,
                 cleanupVars, main_process, child, svcDoRun>>

\* SvcStop: `if self.main_process: self.main_process.terminate()`
TerminateChild ==
  /\ svcStop = "terminate"
  /\ child' = IF main_process # "None" /\ child = "running" THEN "terminated" ELSE child
  /\ svcStop' = "done"
  /\ UNCHANGED <<pc, logs, configVars, setupVars, midiVars, streamVars, exitVars,
                 cleanupVars, stop_event, main_process, svcDoRun>>

\* the child runs main(): the constructor and the call of start_monitoring
ChildStep ==
  /\ child = "running"
  /\ (LoadConfig \/ InitializeMidi \/ StartMonitoring)

\* the child ends by itself: start_monitoring returned and main() is left
ChildExit ==
  /\ child = "running"
  /\ pc \in {"returned", "crashed"}
  /\ child' = "exited"
  /\ UNCHANGED <<pc, logs, configVars, setupVars, midiVars, streamVars, exitVars,
                 cleanupVars, stop_event, main_process, svcDoRun, svcStop>>

ServiceNext ==
  \/ Popen
  \/ AssignMainProcess
  \/ WaitForStop
  \/ ReportStopPending
  \/ SetStopEvent
  \/ TerminateChild
  \/ ChildStep
  \/ ChildExit

ServiceSpec == ServiceInit /\ [][ServiceNext]_vars

---------------------------------------------------------------------------
(* Properties *)

Last(q) == q[Len(q)]

\* the events the loop has handled, in order
Handled == [i \in 1..Len(trace) |-> trace[i].ev]

\* the capability operations invoked so far, in order
RECURSIVE CallsOf(_)
CallsOf(tr) == IF tr = <<>> THEN <<>> ELSE tr[1].calls \o CallsOf(Tail(tr))

\* C1: for every MIDI event read while polling, the pad handler is invoked
\* with note = data1 exactly when status = 144 and data2 > 0, the knob handler
\* is invoked with (data1, data2) exactly when status = 176, and for every
\* other event neither handler is invoked and no capability is called.
C1_Classification ==
  \A i \in 1..Len(trace) :
    LET r == trace[i]
        e == trace[i].ev
    IN  /\ r.handler \in {"pad", "knob", "none"}
        /\ (r.handler = "pad") <=> (e.status = 144 /\ e.data2 > 0)
        /\ (r.handler = "pad") => (r.hargs = <<e.data1>>)
        /\ (r.handler = "knob") <=> (e.status = 176)
        /\ (r.handler = "knob") => (r.hargs = <<e.data1, e.data2>>)
        /\ (r.handler = "none") => (r.hargs = <<>> /\ r.calls = <<>> /\ r.logs = {})

\* a pad press, a knob turn, a velocity-zero note-on and a note-off have been handled
C1_Witness ==
  /\ \E i \in 1..Len(trace) : trace[i].handler = "pad" /\ trace[i].calls # <<>>
  /\ \E i \in 1..Len(trace) : trace[i].handler = "knob" /\ trace[i].calls # <<>>
  /\ \E i \in 1..Len(trace) : trace[i].handler = "none" /\ trace[i].ev.status = 144

\* C2: when the capability call made for a pad or knob event fails, the
\* exception does not leave the handler and the loop is polling with the rest
\* of the batch right after that event; and an event is dispatched the same way
\* (same handler, same arguments, same capability calls) wherever it stands in
\* the stream, after a failure as before one.
C2_FailureIsolated ==
  /\ [](\A i \in 1..Len(trace) : trace[i].failed => ~trace[i].escaped)
  /\ [](\A i, j \in 1..Len(trace) :
          trace[i].ev = trace[j].ev =>
            /\ trace[i].handler = trace[j].handler
            /\ trace[i].hargs = trace[j].hargs
            /\ trace[i].calls = trace[j].calls)
  /\ [][(Len(trace') = Len(trace) + 1 /\ Last(trace').failed) =>
          (pc' = "polling" /\ monitorExit' = "none" /\ batch' = Tail(batch))]_vars

\* a pad capability failed, and the loop went on to dispatch a knob event
C2_Witness ==
  /\ pc = "polling"
  /\ Len(trace) >= 2
  /\ trace[1].failed /\ trace[1].handler = "pad"
  /\ trace[2].handler = "knob" /\ trace[2].calls # <<>>

\* C3: when device setup fails on attempts 1 and 2 and opens the device on
\* attempt 3, the handle is open once initialization has returned and
\* start_monitoring enters polling; when all 3 attempts fail, initialization
\* has returned with no handle, and start_monitoring returns without polling,
\* without dispatching and without raising.
C3_SetupRetry ==
  /\ [](attemptLog = <<"failed", "failed", "found">> =>
          /\ pc \notin {"init_midi", "crashed"}
          /\ midi_input = "Input"
          /\ pc = "constructed" => (inputOpen /\ midiInit))
  /\ [](attemptLog = <<"failed", "failed", "failed">> =>
          /\ pc \in {"constructed", "returned"}
          /\ midi_input = "None" /\ ~inputOpen
          /\ trace = <<>>
          /\ ~monitorRaised)
  /\ [][(pc = "constructed" /\ attemptLog = <<"failed", "failed", "found">>) =>
          pc' = "polling"]_vars
  /\ [][(pc = "constructed" /\ attemptLog = <<"failed", "failed", "failed">>) =>
          (pc' = "returned" /\ monitorExit' = "no_device")]_vars

\* the third attempt opened the device and the loop is polling
C3_Witness ==
  /\ attemptLog = <<"failed", "failed", "found">>
  /\ pc = "polling"
  /\ inputOpen

\* C4: every call of cleanup(), also after start_monitoring has made its own
\* release on the interrupt path or on the error path, completes without
\* error and leaves the device handle and the MIDI subsystem released.
C4_CleanupIdempotent ==
  cleanups > 0 => (~cleanupRaised /\ ~inputOpen /\ ~midiInit)

\* the action names the dispatcher is documented to recognise
RecognisedPadNames ==
  { PreviousTrack, PlayPauseSpotify, NextTrack, LaunchFocusSlack, LaunchFocusWindsurf,
    VoiceRecognition, ToggleAudioOutput, MoveToNextDisplay, MinimizeWindow,
    MaximizeWindow, SwitchWindow, OpenFileExplorer, ShowDesktop }

RecognisedKnobNames ==
  { SystemVolume, SpotifyVolume, FirefoxVolume, ScreenBrightness, RelativeZoom,
    HorizontalScroll, VerticalScroll }

\* the action configured for the note or cc of a handled event (None when unmapped)
ConfiguredAction(r) ==
  LET key == py_str(r.ev.data1)
      table == IF r.handler = "pad" THEN pad_mappings ELSE knob_mappings
      v == IF table.t = "obj" /\ key \in DOMAIN table.m THEN table.m[key] ELSE None
  IN  IF v.t = "dict" THEN v.action ELSE v

\* dispatch returned normally, invoked nothing and logged a warning
WarnedNoOp(r) == ~r.escaped /\ r.calls = <<>> /\ "warning" \in r.logs

\* a character up to letter case and the separators ' ', '/' and '_'
FoldChar(c) == IF c \in {" ", "/", "_"} THEN "_" ELSE lower_char(c)

\* two names that differ only in letter case and in the separators
SameUpToCaseAndSeparators(a, b) ==
  Len(a) = Len(b) /\ \A i \in 1..Len(a) : FoldChar(a[i]) = FoldChar(b[i])

\* C5 as stated: a mapped note or cc whose configured action name is any
\* string other than a recognised name is a no-op with a warning.
C5_ExactNameMatch ==
  \A i \in 1..Len(trace) :
    LET r == trace[i]
        a == ConfiguredAction(trace[i])
    IN  /\ (r.handler = "pad" /\ a.t = "str" /\ a.s \notin RecognisedPadNames)
             => WarnedNoOp(r)
        /\ (r.handler = "knob" /\ a.t = "str" /\ a.s \notin RecognisedKnobNames)
             => WarnedNoOp(r)

\* C5 amended: knob names are resolved by exact string equality, pad names up
\* to letter case and the separators ' ', '/' and '_'.  A non-empty knob name
\* other than the seven recognised ones, and a non-empty pad name that matches
\* no attribute of the pad handler up to case and separators, is a no-op with
\* a warning; a pad name that matches a pad operation up to case and
\* separators invokes exactly that operation.
C5_NameResolution ==
  \A i \in 1..Len(trace) :
    LET r == trace[i]
        a == ConfiguredAction(trace[i])
    IN  /\ (r.handler = "knob" /\ a.t = "str" /\ a.s # <<>>
              /\ a.s \notin RecognisedKnobNames)
             => WarnedNoOp(r)
        /\ (r.handler = "pad" /\ a.t = "str" /\ a.s # <<>>
              /\ \A attr \in DOMAIN PadMethods \cup PadFields :
                   ~SameUpToCaseAndSeparators(a.s, attr))
             => WarnedNoOp(r)
        /\ \A attr \in DOMAIN PadMethods :
             (r.handler = "pad" /\ a.t = "str" /\ SameUpToCaseAndSeparators(a.s, attr))
               => (~r.escaped /\ r.calls = <<PadCall(PadMethods[attr])>>)

\* an unknown pad name and a knob name in the wrong letter case were dispatched
C5_Witness ==
  /\ \E i \in 1..Len(trace) :
       /\ trace[i].handler = "pad"
       /\ ConfiguredAction(trace[i]).t = "str"
       /\ ConfiguredAction(trace[i]).s # <<>>
       /\ "warning" \in trace[i].logs
  /\ \E i \in 1..Len(trace) :
       /\ trace[i].handler = "knob"
       /\ ConfiguredAction(trace[i]).t = "str"
       /\ SameUpToCaseAndSeparators(ConfiguredAction(trace[i]).s, SystemVolume)
       /\ "warning" \in trace[i].logs

\* C6: with the default mappings, the stream (144,40,100), (176,16,64),
\* (176,17,0), (144,36,0) produces exactly: launch-or-focus Windsurf, system
\* volume to 64/127, Spotify volume to 0, and nothing for the last event.
C6_Scenario ==
  (/\ pad_mappings = DefaultPadMappings
   /\ knob_mappings = DefaultKnobMappings
   /\ Handled = ScenarioStream)
  => /\ CallsOf(trace) =
          << [op |-> "launch_focus_windsurf", app |-> "", val |-> <<>>],
             [op |-> "set_system_volume", app |-> "", val |-> <<64, 127>>],
             [op |-> "set_application_volume", app |-> "spotify.exe", val |-> <<0, 127>>] >>
     /\ Len(trace[1].calls) = 1 /\ Len(trace[2].calls) = 1 /\ Len(trace[3].calls) = 1
     /\ trace[4].handler = "none" /\ trace[4].calls = <<>>

\* the whole scenario stream has been handled under the default mappings
C6_Witness ==
  /\ pad_mappings = DefaultPadMappings
  /\ knob_mappings = DefaultKnobMappings
  /\ Handled = ScenarioStream
  /\ pc = "polling"

\* C7: once an interrupt has arrived while the loop is polling, no event is
\* dispatched any more; the loop ends with the device handle closed and then
\* the MIDI subsystem quit, in that order, and nothing raised out of
\* start_monitoring; and this end is reached.
C7_Interrupt ==
  /\ [][(interruptPending \/ monitorExit = "interrupt") => trace' = trace]_vars
  /\ [](monitorExit = "interrupt" =>
          /\ pc = "returned"
          /\ ~monitorRaised
          /\ ~inputOpen /\ ~midiInit
          /\ Len(releaseLog) >= 2
          /\ releaseLog[1] = "close" /\ releaseLog[2] = "quit")
  /\ (interruptPending ~> monitorExit = "interrupt")

\* the interrupt ended a loop that had handled part of the scenario stream
C7_Witness ==
  /\ monitorExit = "interrupt"
  /\ trace # <<>>
  /\ feed # <<>>
  /\ releaseLog = <<"close", "quit">>

\* C8: a failure of poll() or read() ends monitoring for good: nothing is
\* dispatched afterwards, the handle and the subsystem are released, the
\* error is logged and does not leave start_monitoring, and polling is never
\* entered again.
C8_PollFailure ==
  /\ [](monitorExit = "error" =>
          /\ pc = "returned"
          /\ "monitoring_error" \in logs
          /\ ~monitorRaised
          /\ ~inputOpen /\ ~midiInit
          /\ Len(releaseLog) >= 2
          /\ releaseLog[1] = "close" /\ releaseLog[2] = "quit")
  /\ [][monitorExit = "error" =>
          (trace' = trace /\ pc' = "returned" /\ monitorExit' = "error")]_vars

\* the poll failed after an event had been dispatched normally
C8_Witness ==
  /\ monitorExit = "error"
  /\ trace # <<>>
  /\ ~Last(trace).escaped

\* C9: an attempt that enumerates the devices and finds no match is the last
\* attempt: initialization logs the error and returns without raising and
\* without counting a retry, no handle is held, and start_monitoring returns
\* without polling or dispatching.
C9_NotFound ==
  /\ \A i \in 1..Len(attemptLog) : attemptLog[i] = "not_found" => i = Len(attemptLog)
  /\ (attemptLog # <<>> /\ Last(attemptLog) = "not_found") =>
       /\ pc \in {"constructed", "returned"}
       /\ retry_count = Len(attemptLog) - 1
       /\ sleeps = retry_count
       /\ "midi_not_found" \in logs
       /\ midi_input = "None" /\ ~inputOpen
       /\ trace = <<>> /\ pending = <<>> /\ batch = <<>>
       /\ ~monitorRaised
       /\ pc = "returned" => monitorExit = "no_device"

\* the enumeration held a device of the right name that is no input, and
\* start_monitoring has returned
C9_Witness ==
  /\ attemptLog = <<"not_found">>
  /\ devices # <<>>
  /\ pc = "returned"
  /\ monitorExit = "no_device"

\* C10: loading the configuration never raises; when the file is missing or
\* cannot be parsed, the mappings in memory are the defaults afterwards, and
\* the file holds the defaults unless the save failed (which is only logged).
C10_LoadDefaults ==
  [][pc = "load_config" =>
       /\ pc' = "init_midi"
       /\ file.kind \in {"missing", "garbage"} =>
            /\ pad_mappings' = DefaultPadMappings
            /\ knob_mappings' = DefaultKnobMappings
            /\ "config_save_failed" \notin logs' =>
                 file' = FileJson(JConfig(DefaultPadMappings, DefaultKnobMappings))
            /\ "config_save_failed" \in logs' => file' \in {file, FileGarbage}]_vars

\* an unparsable file was replaced by the defaults in memory while the save failed
C10_Witness ==
  /\ pc = "init_midi"
  /\ "config_load_failed" \in logs
  /\ "config_save_failed" \in logs
  /\ file = FileGarbage
  /\ pad_mappings = DefaultPadMappings
  /\ knob_mappings = DefaultKnobMappings

---------------------------------------------------------------------------
(* The configuration store *)

\* the capability operation each recognised pad action name stands for
PadOperation ==
  PreviousTrack :> "previous_track" @@ PlayPauseSpotify :> "play_pause_spotify" @@
  NextTrack :> "next_track" @@ LaunchFocusSlack :> "launch_focus_slack" @@
  LaunchFocusWindsurf :> "launch_focus_windsurf" @@
  VoiceRecognition :> "voice_recognition" @@
  ToggleAudioOutput :> "toggle_audio_output" @@
  MoveToNextDisplay :> "move_to_next_display" @@
  MinimizeWindow :> "minimize_window" @@ MaximizeWindow :> "maximize_window" @@
  SwitchWindow :> "switch_window" @@ OpenFileExplorer :> "open_file_explorer" @@
  ShowDesktop :> "show_desktop"

\* the capability operation (and application) each recognised knob action name stands for
KnobOperation ==
  SystemVolume :> <<"set_system_volume", "">> @@
  SpotifyVolume :> <<"set_application_volume", "spotify.exe">> @@
  FirefoxVolume :> <<"set_application_volume", "firefox.exe">> @@
  ScreenBrightness :> <<"set_screen_brightness", "">> @@
  RelativeZoom :> <<"relative_zoom", "">> @@
  HorizontalScroll :> <<"horizontal_scroll", "">> @@
  VerticalScroll :> <<"vertical_scroll", "">>

\* the action of the most recent of the first n updates made with operation
\* op for the key k (None when there is none)
LastUpdate(op, k, n) ==
  LET idx == { i \in 1..n : updates[i].op = op /\ str_arg(updates[i].key) = k }
  IN  IF idx = {} THEN None
      ELSE updates[CHOOSE i \in idx : \A j \in idx : j <= i].action

\* the number of updates made before the i-th event was dispatched
UpdatesBefore(i) == Cardinality({ j \in 1..Len(updates) : updates[j].at < i })

\* C11: after any sequence of updates whose saves succeeded,
\* get_pad_action(n) returns the action of the most recent update_pad_mapping
\* for note n, whether n is passed as an int or as its decimal string, and a
\* fresh store loaded from the persisted file returns the same.
C11_PadRoundTrip ==
  (\A i \in 1..Len(updates) : updates[i].saved)
  => \A n \in 0..MIDI_RANGE :
       LET a == LastUpdate("update_pad_mapping", py_str(n), Len(updates))
           want == [raised |-> FALSE, value |-> a]
       IN  a # None =>
             /\ get_pad_action(pad_mappings, PyInt(n)) = want
             /\ get_pad_action(pad_mappings, JStr(py_str(n))) = want
             /\ \A o \in SaveOutcomes :
                  /\ ~load_config(file, o).raised
                  /\ get_pad_action(load_config(file, o).pad_mappings, PyInt(n)) = want
                  /\ get_pad_action(load_config(file, o).pad_mappings, JStr(py_str(n))) = want

\* note 40 was updated twice, once as an int and once as a string, with
\* different actions, and both saves succeeded
C11_Witness ==
  /\ Len(updates) = 2
  /\ updates[1].op = "update_pad_mapping" /\ updates[2].op = "update_pad_mapping"
  /\ updates[1].saved /\ updates[2].saved
  /\ updates[1].key = JStr(py_str(40)) /\ updates[2].key = PyInt(40)
  /\ updates[1].action # updates[2].action
  /\ get_pad_action(pad_mappings, JStr(py_str(40))).value = updates[2].action

\* C12: an update whose save fails returns normally, the failure is only
\* logged, the mapping in memory holds the new value, and the updates and the
\* event dispatches that follow work and use the value in memory.
C12_SaveFailureContained ==
  /\ [][Len(updates') = Len(updates) + 1 =>
         LET u == Last(updates')
         IN  /\ ~u.raised
             /\ pc' = "polling"
             /\ ~u.saved => "config_save_failed" \in logs'
             /\ u.op = "update_pad_mapping" =>
                  get_pad_action(pad_mappings', u.key) = [raised |-> FALSE, value |-> u.action]
             /\ u.op = "update_knob_mapping" =>
                  get_knob_action(knob_mappings', u.key).value = u.action]_vars
  /\ [](\A i \in 1..Len(trace) :
          LET r == trace[i]
              k == py_str(r.ev.data1)
              p == LastUpdate("update_pad_mapping", k, UpdatesBefore(i))
              q == LastUpdate("update_knob_mapping", k, UpdatesBefore(i))
          IN  /\ (r.handler = "pad" /\ p # None) =>
                   (~r.escaped /\ r.calls = <<PadCall(PadOperation[p.s])>>)
              /\ (r.handler = "knob" /\ q # None) =>
                   (~r.escaped /\
                    r.calls = <<KnobCall(KnobOperation[q.s][1], KnobOperation[q.s][2],
                                         <<r.ev.data2, MIDI_RANGE>>)>>))

\* an update whose save failed was followed by another update and by the
\* dispatch of an event on the updated note, which used the new action
C12_Witness ==
  /\ Len(updates) = 2
  /\ ~updates[1].saved /\ updates[1].op = "update_pad_mapping"
  /\ updates[1].action = JStr(ShowDesktop)
  /\ updates[2].op = "update_knob_mapping"
  /\ Len(trace) = 1 /\ updates[1].at = 0 /\ updates[2].at = 0
  /\ trace[1].calls = <<PadCall("show_desktop")>>

---------------------------------------------------------------------------
(* The knob capabilities *)

\* the raw value an effect was computed from, when its value is raw / 127
RawOf(e) == e.val[1]

\* the sensitivity a relative change was computed with
SensitivityOf(e) ==
  CASE e.op = "_get_relative_change" -> e.sensitivity
    [] e.op = "relative_zoom" -> 1
    [] OTHER -> 2

\* the effects of the operations that act on a relative change
RelativeEffects ==
  { j \in 1..Len(effects) :
      effects[j].op \in {"relative_zoom", "horizontal_scroll", "vertical_scroll"} }

\* C13: for Relative Zoom, Horizontal Scroll and Vertical Scroll, whenever
\* the relative change has magnitude below 0.1, no key press and no scroll
\* call is made; that is the case for the raw values 58..69 (zoom,
\* sensitivity 1.0) and 61..66 (scrolls, sensitivity 2.0), and for no other.
C13_Deadzone ==
  \A j \in RelativeEffects :
    LET e == effects[j]
        below == mag_less(e.change, fdiv(1, 10))
    IN  /\ below => e.os = <<>>
        /\ e.op = "relative_zoom" => (below <=> RawOf(e) \in 58..69)
        /\ e.op \in {"horizontal_scroll", "vertical_scroll"} =>
             (below <=> RawOf(e) \in 61..66)
        \* the same in exact arithmetic: 10 * s * |2r - 127| < 127
        /\ below <=> (10 * SensitivityOf(e) * (2 * RawOf(e) - MIDI_RANGE) < MIDI_RANGE
                        /\ 10 * SensitivityOf(e) * (MIDI_RANGE - 2 * RawOf(e)) < MIDI_RANGE)

\* a horizontal scroll at raw value 66, the last of the dead zone, on a
\* machine where the call would have succeeded, made no call
C13_Witness ==
  /\ Len(effects) = 1
  /\ effects[1].op = "horizontal_scroll"
  /\ RawOf(effects[1]) = 66
  /\ ~effects[1].machine.fail
  /\ effects[1].os = <<>>
  /\ Len(trace) = 1 /\ trace[1].calls # <<>>

\* the float 1.0
FOne == fdiv(1, 1)

\* a float times 127 * 2^14, truncated to an integer (with its sign)
Scaled(x) ==
  LET t == ftrunc(fmul(fmul(fmul(x, MIDI_RANGE), 128), 128))
  IN  t

\* the knob records of the trace, and the effect each had (CapabilitySpec
\* handles one event, so the effects of a record are all the effects)
KnobRecords == { i \in 1..Len(trace) : trace[i].handler = "knob" }

AbsoluteKnobNames == { SystemVolume, SpotifyVolume, FirefoxVolume, ScreenBrightness }

WithKnob(key, mapping) == JObj((key :> mapping) @@ knob_mappings.m)

\* the knob action names tried in either form: the recognised ones and an
\* unknown one
KnobNamesTried == RecognisedKnobNames \cup { <<"B","o","g","u","s">> }

\* the min and max tried in a structured record
BoundsTried == { <<1, 127>>, <<0, 64>>, <<20, 10>>, <<0, 0>> }

\* get_knob_action returns the name A for the cc of a record in both forms
SameNameInBothForms(rec, A, b) ==
  LET key == py_str(rec.ev.data1)
      structured == WithKnob(key, JKnob(JStr(A), b[1], b[2]))
      legacy == WithKnob(key, JStr(A))
  IN  /\ get_knob_action(structured, JStr(key)).value = JStr(A)
      /\ get_knob_action(legacy, JStr(key)).value = JStr(A)
      /\ get_knob_action(structured, PyInt(rec.ev.data1))
           = get_knob_action(legacy, PyInt(rec.ev.data1))

\* the event of a record is dispatched identically in both forms of A
DispatchedAlike(rec, A, b) ==
  LET key == py_str(rec.ev.data1)
      structured == WithKnob(key, JKnob(JStr(A), b[1], b[2]))
      legacy == WithKnob(key, JStr(A))
  IN  \A f \in BOOLEAN :
        dispatch_event(rec.ev, pad_mappings, structured, f)
          = dispatch_event(rec.ev, pad_mappings, legacy, f)

\* C15 as stated: for every cc and every action name A, the empty name
\* included, get_knob_action returns A in both forms and the event is
\* dispatched identically.
C15_AnyName ==
  \A i \in KnobRecords :
    \A A \in KnobNamesTried \cup { <<>> }, b \in BoundsTried :
      SameNameInBothForms(trace[i], A, b) /\ DispatchedAlike(trace[i], A, b)

\* C15: for every cc and non-empty action name A, get_knob_action returns A
\* whether the knob mapping stored for the cc is the structured record
\* {action: A, min, max} or the bare string A; for the empty name the
\* structured record yields the empty string and the bare string yields
\* None; for every name, the empty one included, a knob event on that cc is
\* dispatched identically in both cases.
C15_LegacyKnobForm ==
  \A i \in KnobRecords :
    LET rec == trace[i]
        key == py_str(rec.ev.data1)
        a == ConfiguredAction(rec)
    IN  /\ \A A \in KnobNamesTried, b \in BoundsTried : SameNameInBothForms(rec, A, b)
        /\ \A A \in KnobNamesTried \cup { <<>> }, b \in BoundsTried :
             DispatchedAlike(rec, A, b)
        /\ \A b \in BoundsTried :
             /\ get_knob_action(WithKnob(key, JKnob(JStr(<<>>), b[1], b[2])),
                                 JStr(key)).value = JStr(<<>>)
             /\ get_knob_action(WithKnob(key, JStr(<<>>)), JStr(key)).value = None
        \* what the program did with the stored form is what it does with
        \* the other form of the same name
        /\ a.t = "str" =>
             \A b \in BoundsTried :
               /\ rec = dispatch_event(rec.ev, pad_mappings,
                                       WithKnob(key, JKnob(a, b[1], b[2])), rec.failed)
               /\ rec = dispatch_event(rec.ev, pad_mappings, WithKnob(key, a), rec.failed)

\* a knob event on a cc stored in the legacy form invoked its operation
C15_Witness ==
  /\ Len(trace) = 1
  /\ trace[1].handler = "knob"
  /\ py_str(trace[1].ev.data1) \in DOMAIN knob_mappings.m
  /\ knob_mappings.m[py_str(trace[1].ev.data1)] = JStr(VerticalScroll)
  /\ trace[1].calls = << KnobCall("vertical_scroll", "", <<trace[1].ev.data2, MIDI_RANGE>>) >>
  /\ Len(effects) = 1 /\ effects[1].os # <<>>

\* the knob mappings with the min and max of every structured record replaced
WithBounds(b) ==
  JObj([k \in DOMAIN knob_mappings.m |->
          IF knob_mappings.m[k].t = "dict"
          THEN JKnob(knob_mappings.m[k].action, b[1], b[2])
          ELSE knob_mappings.m[k]])

\* C16: the capability calls produced by a knob event do not depend on the
\* min and max stored for its cc: a configuration that differs only in the
\* min and max of knob mappings produces the same calls with the same
\* argument values, and the operations do the same.
C16_BoundsIgnored ==
  \A b \in BoundsTried :
    /\ \A i \in 1..Len(trace) :
         LET other == dispatch_event(trace[i].ev, pad_mappings, WithBounds(b),
                                     trace[i].failed)
         IN  /\ other.calls = trace[i].calls
             /\ other = trace[i]
             /\ trace[i].handler = "knob" =>
                  \A k \in 1..Len(other.calls) :
                    /\ k \in 1..Len(effects)
                    /\ other.calls[k].val = <<trace[i].ev.data2, MIDI_RANGE>>
                    /\ LET done == capability(other.calls[k], effects[k].machine)
                       IN  /\ done.change = effects[k].change
                           /\ done.os = effects[k].os
                           /\ done.logs = effects[k].logs

\* a horizontal scroll on a cc stored with min 0 and max 64 at raw value
\* 127 was called with 127/127 and scrolled by 100
C16_Witness ==
  /\ Len(trace) = 1 /\ Len(effects) = 1
  /\ trace[1].ev = Event(CONTROL_CHANGE, 17, MIDI_RANGE)
  /\ knob_mappings.m[py_str(17)] = JKnob(JStr(HorizontalScroll), 0, 64)
  /\ trace[1].calls = << KnobCall("horizontal_scroll", "", <<MIDI_RANGE, MIDI_RANGE>>) >>
  /\ effects[1].os = << OsCall("hscroll", 100) >>

\* the pad operation named for each note of the default mappings
DefaultPadOperation ==
  36 :> "previous_track" @@ 37 :> "play_pause_spotify" @@ 38 :> "next_track" @@
  39 :> "launch_focus_slack" @@ 40 :> "launch_focus_windsurf" @@
  41 :> "voice_recognition" @@ 42 :> "toggle_audio_output" @@
  43 :> "move_to_next_display"

\* the knob operation (and application) named for each cc of the default mappings
DefaultKnobOperation ==
  16 :> <<"set_system_volume", "">> @@
  17 :> <<"set_application_volume", "spotify.exe">> @@
  18 :> <<"set_application_volume", "firefox.exe">> @@
  19 :> <<"set_screen_brightness", "">>

\* C17: every recognised action name resolves to exactly one capability
\* operation: with the default mappings a pad-down on each note 36..43
\* invokes exactly the pad operation named for the note and a knob turn on
\* each cc 16..19 exactly the knob operation named for the cc; the
\* non-default pad and knob actions likewise invoke exactly one operation
\* each; a note or cc with no mapping invokes nothing.
C17_OneOperation ==
  \A i \in 1..Len(trace) :
    LET rec == trace[i]
        n == rec.ev.data1
        a == ConfiguredAction(rec)
    IN  /\ (rec.handler = "pad" /\ pad_mappings = DefaultPadMappings /\ n \in 36..43) =>
             rec.calls = << PadCall(DefaultPadOperation[n]) >>
        /\ (rec.handler = "knob" /\ knob_mappings = DefaultKnobMappings /\ n \in 16..19) =>
             /\ rec.calls = << KnobCall(DefaultKnobOperation[n][1], DefaultKnobOperation[n][2],
                                        <<rec.ev.data2, MIDI_RANGE>>) >>
             /\ Len(effects) = 1
             /\ effects[1].op = DefaultKnobOperation[n][1]
             /\ effects[1].app = DefaultKnobOperation[n][2]
        /\ (rec.handler = "pad" /\ a.t = "str" /\ a.s \in RecognisedPadNames) =>
             /\ rec.calls = << PadCall(PadOperation[a.s]) >>
             /\ Len(effects) = 1
             /\ effects[1].op = PadOperation[a.s]
        /\ (rec.handler = "knob" /\ a.t = "str" /\ a.s \in RecognisedKnobNames) =>
             /\ rec.calls = << KnobCall(KnobOperation[a.s][1], KnobOperation[a.s][2],
                                        <<rec.ev.data2, MIDI_RANGE>>) >>
             /\ Len(effects) = 1
             /\ effects[1].op = KnobOperation[a.s][1]
             /\ effects[1].app = KnobOperation[a.s][2]
        /\ (rec.handler \in {"pad", "knob"} /\ a = None) =>
             /\ rec.calls = <<>>
             /\ rec.logs = {}
             /\ ~rec.escaped
             /\ effects = <<>>

\* with the default mappings, a pad-down on note 37 invoked play_pause_spotify
C17_Witness ==
  /\ pad_mappings = DefaultPadMappings
  /\ Len(trace) = 1
  /\ trace[1].ev = Event(NOTE_ON, 37, 100)
  /\ trace[1].calls = << PadCall("play_pause_spotify") >>

\* the effects that hold a relative change
ChangeEffects ==
  { j \in 1..Len(effects) : effects[j].change # None }

\* the normalized value as far above 0.5 as v is below it
Mirror(v) == <<v[2] - v[1], v[2]>>

\* the relative change at the mirrored value, with the sensitivity of e
MirrorChange(e) == get_relative_change(to_float(Mirror(e.val)), SensitivityOf(e))

\* the digits of weights 2^0 .. 2^-63 of abs(x) / 4, for abs(x) <= 2
QuarterBits(x) ==
  IF x = FZero THEN fixed_bits(FZero)
  ELSE fixed_bits([neg |-> FALSE, m |-> x.m, e |-> x.e - 2])

\* x and -y differ by less than 2^-50
NearlyOpposite(x, y) ==
  LET a == QuarterBits(x)
      b == QuarterBits(y)
      d == IF bits_less(a, b) THEN bits_minus(b, a) ELSE bits_minus(a, b)
  IN  /\ (x = FZero \/ y = FZero \/ x.neg # y.neg)
      /\ \A i \in 1..53 : d[i] = 0

\* the change is 0 at 0.5 and lies in [-s, +s]
ZeroAtCentreAndBounded(e) ==
  /\ e.val = <<1, 2>> => e.change = FZero
  /\ ~mag_less(fmul(FOne, SensitivityOf(e)), e.change)

\* C18 as stated: the relative change is 0 at 0.5, lies in [-s, +s] and is
\* antisymmetric about 0.5: the change for r equals minus the change for
\* 127 - r.
C18_ExactAntisymmetry ==
  \A j \in ChangeEffects :
    /\ ZeroAtCentreAndBounded(effects[j])
    /\ MirrorChange(effects[j]) = fneg(effects[j].change)

\* C18: the relative change for sensitivity s is 0 at normalized value 0.5
\* and lies in [-s, +s]; the change at 0.5 + d equals minus the change at
\* 0.5 - d when both normalized values are floats (0 and 1, 0.25 and 0.75);
\* on raw values the change for r and minus the change for 127 - r agree to
\* within 2^-50, and the dead zone, the key presses and the scroll amount
\* derived from them are exactly mirrored.
C18_RelativeChange ==
  \A j \in ChangeEffects :
    LET e == effects[j]
    IN  /\ ZeroAtCentreAndBounded(e)
        /\ NearlyOpposite(e.change, MirrorChange(e))
        /\ e.val \in { <<0, MIDI_RANGE>>, <<MIDI_RANGE, MIDI_RANGE>>, <<1, 2>>,
                        <<1, 4>>, <<3, 4>> } =>
             MirrorChange(e) = fneg(e.change)
        /\ e.op # "_get_relative_change" =>
             LET other == capability(KnobCall(e.op, e.app, Mirror(e.val)), e.machine)
             IN  /\ Len(other.os) = Len(e.os)
                 /\ other.logs = e.logs
                 /\ \A k \in 1..Len(e.os) :
                      /\ other.os[k].api = e.os[k].api
                      /\ e.op = "relative_zoom" =>
                           {other.os[k].arg[2], e.os[k].arg[2]} = {"+", "-"}
                      /\ e.op # "relative_zoom" => other.os[k].arg = 0 - e.os[k].arg

\* _get_relative_change called with 3/127 returned a change that is not
\* minus the change at 124/127
C18_Witness ==
  /\ Len(effects) = 1
  /\ effects[1].op = "_get_relative_change"
  /\ effects[1].val = <<3, MIDI_RANGE>>
  /\ effects[1].sensitivity = ZOOM_SENSITIVITY
  /\ effects[1].change.neg
  /\ MirrorChange(effects[1]) # fneg(effects[1].change)

\* the effects of Screen Brightness
BrightnessEffects ==
  { j \in 1..Len(effects) : effects[j].op = "set_screen_brightness" }

\* the percent a brightness call passes
PercentOf(call) == call.arg[1]

\* C19: for every raw value r mapped to Screen Brightness, the percent
\* passed to each display is the integer floor(100 * r / 127), lies in
\* 0..100, is 0 at r = 0 and 100 at r = 127, and is non-decreasing in r.
C19_BrightnessPercent ==
  \A j \in BrightnessEffects :
    LET e == effects[j]
        r == RawOf(e)
        m == e.machine
    IN  /\ (m.wmi /\ ~m.fail) => Len(e.os) = Len(m.displays)
        /\ \A k \in 1..Len(e.os) :
             /\ e.os[k].api = "WmiSetBrightness"
             /\ PercentOf(e.os[k]) = (100 * r) \div MIDI_RANGE
             /\ PercentOf(e.os[k]) \in 0..100
             /\ r = 0 => PercentOf(e.os[k]) = 0
             /\ r = MIDI_RANGE => PercentOf(e.os[k]) = 100
             /\ r < MIDI_RANGE =>
                  PercentOf(e.os[k]) <= brightness_percent(to_float(<<r + 1, MIDI_RANGE>>))

\* raw value 64 on a machine with two displays passed 50 to both
C19_Witness ==
  /\ Len(effects) = 1
  /\ effects[1].op = "set_screen_brightness"
  /\ RawOf(effects[1]) = 64
  /\ Len(effects[1].machine.displays) = 2
  /\ Len(effects[1].os) = 2
  /\ PercentOf(effects[1].os[1]) = 50 /\ PercentOf(effects[1].os[2]) = 50

---------------------------------------------------------------------------
(* Device initialization *)

\* the number of setup attempts that failed
FailedAttempts == Cardinality({ i \in 1..Len(attemptLog) : attemptLog[i] = "failed" })

\* C20: device initialization always terminates: it makes at most 3 setup
\* attempts, stops at the first attempt that does not fail, waits 1 second
\* only between a failed attempt and the next attempt (at most 2 waits, none
\* after the last failure), and never lets a setup failure propagate to the
\* caller.
C20_InitTerminates ==
  /\ [](Len(attemptLog) <= 3)
  /\ [](\A i \in 1..(Len(attemptLog) - 1) : attemptLog[i] = "failed")
  /\ [](sleeps <= 2)
  /\ [](pc = "init_midi" => (sleeps = FailedAttempts /\ FailedAttempts = Len(attemptLog)))
  /\ [](pc \notin {"load_config", "init_midi"} =>
          sleeps = IF FailedAttempts = 3 THEN 2 ELSE FailedAttempts)
  /\ [][pc = "init_midi" =>
          /\ pc' \in {"init_midi", "constructed"}
          /\ Len(attemptLog') = Len(attemptLog) + 1
          /\ pc' = "init_midi" <=> (Last(attemptLog') = "failed" /\ Len(attemptLog') < 3)
          /\ sleeps' = IF pc' = "init_midi" THEN sleeps + 1 ELSE sleeps]_vars
  /\ [](pc = "init_midi" => <>(pc = "constructed"))

\* three attempts failed, two waits were made and the constructor returned
C20_Witness ==
  /\ attemptLog = <<"failed", "failed", "failed">>
  /\ sleeps = 2
  /\ pc = "constructed"

---------------------------------------------------------------------------
(* Screen brightness on several displays *)

\* C21: setting screen brightness attempts the setting on every display
\* reported, continuing to the remaining displays after a display whose call
\* fails; with zero displays it makes no set call and only logs; failure on
\* some or on all displays is only logged and never raised to the dispatcher.
C21_EveryDisplay ==
  \A j \in BrightnessEffects :
    LET e == effects[j]
        m == e.machine
        refused == { i \in 1..Len(m.displays) : ~m.displays[i] }
    IN  /\ ~e.raised
        /\ Len(trace) = 1 /\ ~trace[1].escaped
        /\ pc = "polling"
        /\ (m.wmi /\ ~m.fail) =>
             /\ Len(e.os) = Len(m.displays)
             /\ \A k \in 1..Len(e.os) : e.os[k].api = "WmiSetBrightness"
             /\ m.displays = <<>> => (e.os = <<>> /\ e.logs = {"info", "warning"})
             /\ refused # {} => "error" \in e.logs
             /\ (m.displays # <<>> /\ refused = {}) => e.logs = {"info"}
        /\ (~m.wmi \/ m.fail) => (e.os = <<>> /\ "error" \in e.logs)

\* the first of two displays refuses: the second was asked all the same, the
\* failure is logged and the loop is polling
C21_Witness ==
  /\ Len(effects) = 1
  /\ effects[1].op = "set_screen_brightness"
  /\ effects[1].machine.displays = <<FALSE, TRUE>>
  /\ Len(effects[1].os) = 2
  /\ "error" \in effects[1].logs
  /\ pc = "polling"

---------------------------------------------------------------------------
(* Device selection *)

\* a device whose name contains 'mpk mini' up to letter case
NamedMpkMini(d) ==
  \E k \in 0..(Len(d.name) - 8) :
    \A i \in 1..8 : lower_char(d.name[k + i]) = <<"m","p","k"," ","m","i","n","i">>[i]

\* C22: device setup opens the lowest-indexed enumerated device whose name
\* contains 'mpk mini' ignoring letter case and which is an input device; a
\* device whose name matches but which is not an input is skipped, and no
\* other device is ever opened.
C22_LowestMatchingInput ==
  /\ deviceId # -1 =>
       /\ deviceId + 1 \in 1..Len(devices)
       /\ NamedMpkMini(devices[deviceId + 1])
       /\ devices[deviceId + 1].input = 1
       /\ \A j \in 1..deviceId : ~(NamedMpkMini(devices[j]) /\ devices[j].input = 1)
       /\ attemptLog # <<>> /\ Last(attemptLog) = "found"
  /\ (attemptLog # <<>> /\ Last(attemptLog) = "found") => deviceId # -1
  /\ (attemptLog # <<>> /\ Last(attemptLog) = "not_found") =>
       /\ deviceId = -1
       /\ \A j \in 1..Len(devices) : ~(NamedMpkMini(devices[j]) /\ devices[j].input = 1)
  /\ midi_input = "Input" => deviceId # -1

\* the device opened is the second of three: the first has a matching name
\* but is an output, the third matches too
C22_Witness ==
  /\ deviceId = 1
  /\ Len(devices) = 3
  /\ NamedMpkMini(devices[1]) /\ devices[1].input = 0
  /\ NamedMpkMini(devices[3]) /\ devices[3].input = 1
  /\ midi_input = "Input"

---------------------------------------------------------------------------
(* Batches *)

\* C23: each poll cycle reads at most 10 pending events; events are
\* dispatched one at a time in the order the device delivered them, each
\* exactly once, and the dispatch of an event, its capability call included,
\* completes before the next event is classified.
C23_BatchesInOrder ==
  /\ [](Len(batch) <= 10)
  \* handled, read and pending events are the delivered stream, in order
  /\ [](Handled \o batch \o pending \o feed \in Bursts)
  \* a read takes the oldest pending events, ten at most
  /\ [][(batch = <<>> /\ batch' # <<>>) =>
          /\ Len(batch') = (IF Len(pending) < 10 THEN Len(pending) ELSE 10)
          /\ batch' \o pending' = pending
          /\ trace' = trace]_vars
  \* a step of the loop body handles the one event at the head of the
  \* batch: its classification and its calls are one record
  /\ [][trace' # trace =>
          /\ batch # <<>>
          /\ Len(trace') = Len(trace) + 1
          /\ SubSeq(trace', 1, Len(trace)) = trace
          /\ Last(trace').ev = Head(batch)
          /\ Last(trace').handler = classify(Head(batch))
          /\ batch' = Tail(batch)
          /\ pending' = pending]_vars

\* twelve events were delivered before the first read: ten were read, the
\* first of them is handled, two are left pending
C23_Witness ==
  /\ Len(batch) = 9
  /\ Len(pending) = 2
  /\ Len(trace) = 1
  /\ feed = <<>>
  /\ trace[1].ev = BurstEvent(1)
  /\ pending[1] = BurstEvent(11)

---------------------------------------------------------------------------
(* Release of the device *)

\* the positions of the release log where the device handle is closed
Closes == { i \in 1..Len(releaseLog) : releaseLog[i] = "close" }

\* C24: on every path through the foreground entry point (interrupt while
\* polling, monitoring error, device not found, all setup attempts failed),
\* the device handle is closed at most once and no operation is performed on
\* the device handle after the MIDI subsystem has been released.
C24_SingleRelease ==
  /\ Cardinality(Closes) <= 1
  /\ \A i \in Closes : \A j \in 1..(i - 1) : releaseLog[j] # "quit"

---------------------------------------------------------------------------
(* Hand-edited configuration files *)

\* load_config took the mappings from the file
Accepted == file.kind = "json" /\ file.doc.t = "config"

\* C25: for every configuration file that load accepts without falling back
\* to defaults (any JSON object, also one whose pad_mappings or
\* knob_mappings is null, a list or another non-object value, or whose
\* mapped action is not a string), a later pad-down or knob-turn event never
\* terminates the input loop: the lookup yields an action or nothing and
\* polling continues.
C25_LookupNeverEndsLoop ==
  Accepted =>
    /\ pc = "polling"
    /\ monitorExit = "none"
    /\ \A i \in 1..Len(trace) : ~trace[i].escaped

---------------------------------------------------------------------------
(* Zoom key presses *)

\* the effects of Relative Zoom on a machine where key presses succeed
ZoomEffects ==
  { j \in 1..Len(effects) : effects[j].op = "relative_zoom" /\ ~effects[j].machine.fail }

\* C26: when Relative Zoom is outside the deadzone (|change| >= 0.1, i.e.
\* raw value r <= 57 or r >= 70), it issues at least one zoom key press,
\* zoom-in presses when the change is positive and zoom-out presses when it
\* is negative, and the number of presses equals the integer part of
\* |change| * 5, never more than 5.
C26_ZoomPresses ==
  \A j \in ZoomEffects :
    LET e == effects[j]
        r == RawOf(e)
    IN  (r <= 57 \/ r >= 70) =>
          /\ ~mag_less(e.change, fdiv(1, 10))
          /\ Len(e.os) >= 1
          /\ Len(e.os) <= 5
          /\ Len(e.os) = ftrunc(fmul(fabs(e.change), 5))
          /\ \A k \in 1..Len(e.os) :
               e.os[k] = OsCall("hotkey", <<"ctrl", IF e.change.neg THEN "-" ELSE "+">>)

---------------------------------------------------------------------------
(* The background service *)

\* C27: in background-service mode, for every interleaving of a stop request
\* with the service's launch of the controller child process, once the stop
\* request has been handled and the service run routine has returned, the
\* child process started by the service has been terminated and is not left
\* running.
C27_ChildTerminated ==
  (svcStop = "done" /\ svcDoRun = "returned") => child # "running"

====
